---- MODULE Spec2Model ----
(***************************************************************************)
(* py7zz: SevenZipFile.extract() and its filename-sanitization fallback    *)
(* (src/py7zz/core.py).  Names, diagnostic texts and listing text are      *)
(* character strings; the archiver, the file system and the platform are   *)
(* the environment and are chosen nondeterministically.                    *)
(***************************************************************************)
EXTENDS Integers, Sequences, FiniteSets, TLC

\* ------------------------------------------------------------------ bounds
\* largest number of members of an archive
MaxMembers == 2

\* ------------------------------------------------------- string utilities
Ch(s, i) == SubSeq(s, i, i)

\* Python: pat in s
Contains(pat, s) ==
  \E i \in 1..(Len(s) - Len(pat) + 1) : SubSeq(s, i, i + Len(pat) - 1) = pat

UpperCase == "ABCDEFGHIJKLMNOPQRSTUVWXYZ"
LowerCase == "abcdefghijklmnopqrstuvwxyz"

LowerChar(c) ==
  IF \E i \in 1..Len(UpperCase) : Ch(UpperCase, i) = c
  THEN Ch(LowerCase, CHOOSE i \in 1..Len(UpperCase) : Ch(UpperCase, i) = c)
  ELSE c

RECURSIVE lower(_)
\* Python: str.lower()
lower(s) == IF s = "" THEN "" ELSE LowerChar(Head(s)) \o lower(Tail(s))

IsSpace(c) == c \in {" ", "\t", "\n", "\r"}

\* the k-th smallest element of a set of integers
Nth(S, k) == CHOOSE p \in S : Cardinality({q \in S : q < p}) = k - 1

\* Python: s.split(sep) for a one-character sep: the fields between
\* consecutive occurrences of sep, empty fields included
SplitOn(s, sep) ==
  LET cuts == {0} \cup {i \in 1..Len(s) : Ch(s, i) = sep} \cup {Len(s) + 1}
  IN  [k \in 1..(Cardinality(cuts) - 1) |->
         SubSeq(s, Nth(cuts, k) + 1, Nth(cuts, k + 1) - 1)]

\* Python: s.split(): the maximal runs of non-whitespace characters
SplitWs(s) ==
  LET starts == {i \in 1..Len(s) :
                   ~IsSpace(Ch(s, i)) /\ (i = 1 \/ IsSpace(Ch(s, i - 1)))}
      ends == {i \in 1..Len(s) :
                 ~IsSpace(Ch(s, i)) /\ (i = Len(s) \/ IsSpace(Ch(s, i + 1)))}
  IN  [k \in 1..Cardinality(starts) |-> SubSeq(s, Nth(starts, k), Nth(ends, k))]

RECURSIVE Join(_, _)
\* Python: sep.join(parts)
Join(sep, parts) ==
  IF parts = <<>> THEN ""
  ELSE IF Len(parts) = 1 THEN parts[1]
  ELSE parts[1] \o sep \o Join(sep, Tail(parts))

RECURSIVE JoinLines(_)
JoinLines(ls) == IF ls = <<>> THEN "" ELSE Head(ls) \o "\n" \o JoinLines(Tail(ls))

\* --------------------------------------------------- failure classification
filename_error_patterns ==
  << "cannot create",
     "cannot use name",
     "invalid name",
     "the filename, directory name, or volume label syntax is incorrect",
     "the system cannot find the path specified",
     "cannot find the path",
     "access is denied",
     "filename too long",
     "illegal characters in name" >>

\* variant: the platform test is missing
_is_filename_error_AnyPlatform(win, error_message) ==
  \E k \in 1..Len(filename_error_patterns) :
    Contains(filename_error_patterns[k], lower(error_message))

\* _is_filename_error(error_message), is_windows() passed as win
_is_filename_error(win, error_message) ==
  IF ~win THEN FALSE
  ELSE LET error_lower == lower(error_message)
       IN  \E k \in 1..Len(filename_error_patterns) :
             Contains(filename_error_patterns[k], error_lower)

\* ------------------------------------------------------ archive listing
\* The table the archiver prints for "l": header, separator, one line per
\* member, separator, totals.
ListingHeader == "   Date      Time    Attr         Size   Compressed  Name"
ListingSeparator == "------------------- ----- ------------ ------------  ------------------------"
ListingTotals == "                                  4500         2250  3 files"

EntryLine(name) == "2023-01-01 12:00:00 ....A         1000          500  " \o name

ListingStdout(members) ==
  JoinLines(<<"", ListingHeader, ListingSeparator>>
            \o [i \in 1..Len(members) |-> EntryLine(members[i])]
            \o <<ListingSeparator, ListingTotals>>)

\* Python: lines.index(line), 1-based here
IndexOf(lines, line) == CHOOSE i \in 1..Len(lines) :
  lines[i] = line /\ \A j \in 1..(i - 1) : lines[j] # line

\* Python: lines[lines.index(line) - 1]; index -1 is the last element
LineBefore(lines, line) ==
  LET k == IndexOf(lines, line) - 1
  IN  IF k = 0 THEN lines[Len(lines)] ELSE lines[k]

RECURSIVE ParseListing(_, _, _, _)
\* the loop of list_contents over lines[i..], with its two locals
ParseListing(lines, i, in_file_list, files) ==
  IF i > Len(lines) THEN files
  ELSE LET line == lines[i] IN
    IF Contains("---", line) /\ Contains("Name", LineBefore(lines, line))
    THEN ParseListing(lines, i + 1, TRUE, files)
    ELSE IF in_file_list /\ Contains("---", line)
    THEN files
    ELSE IF in_file_list /\ SplitWs(line) # <<>>
    THEN LET parts == SplitWs(line) IN
         IF Len(parts) >= 6
         THEN ParseListing(lines, i + 1, in_file_list,
                           Append(files, Join(" ", SubSeq(parts, 6, Len(parts)))))
         ELSE ParseListing(lines, i + 1, in_file_list, files)
    ELSE ParseListing(lines, i + 1, in_file_list, files)

\* list_contents() when the "l" invocation succeeded with this stdout
list_contents(stdout) == ParseListing(SplitOn(stdout, "\n"), 1, FALSE, <<>>)

\* Python: Path(name).name
Basename(name) ==
  LET parts == SplitOn(name, "/") IN parts[Len(parts)]

RECURSIVE LastIndexUpTo(_, _, _)
\* position of the last occurrence of the character c in s[1..i], 0 if none
LastIndexUpTo(c, s, i) ==
  IF i = 0 THEN 0
  ELSE IF Ch(s, i) = c THEN i
  ELSE LastIndexUpTo(c, s, i - 1)

\* Python: s.rfind(c) + 1
LastIndex(c, s) == LastIndexUpTo(c, s, Len(s))

\* Python: Path(name).stem and Path(name).suffix
NameParts(name) ==
  LET b == SubSeq(name, LastIndex("/", name) + 1, Len(name))
      i == LastIndex(".", b)
      cut == IF 1 < i /\ i < Len(b) THEN i ELSE Len(b) + 1
  IN [stem |-> SubSeq(b, 1, cut - 1), suffix |-> SubSeq(b, cut, Len(b))]

Suffix(name) == NameParts(name).suffix

Stem(name) == NameParts(name).stem

\* ---------------------------------------------------- filename sanitizer
InvalidChars == {"<", ">", ":", "\"", "|", "?", "*"}

\* reserved device names
ReservedNames ==
  {"CON", "PRN", "AUX", "NUL",
   "COM1", "COM2", "COM3", "COM4", "COM5", "COM6", "COM7", "COM8", "COM9",
   "LPT1", "LPT2", "LPT3", "LPT4", "LPT5", "LPT6", "LPT7", "LPT8", "LPT9"}

ReservedLower == {lower(r) : r \in ReservedNames}

\* stem is a reserved device name, whatever its case
IsReserved(stem) == Len(stem) \in {3, 4} /\ lower(stem) \in ReservedLower

HasReservedStem(name) == IsReserved(Stem(name))

HasInvalidChar(name) == \E i \in 1..Len(name) : Ch(name, i) \in InvalidChars

EndsWithSpaceOrDot(name) == name # "" /\ Ch(name, Len(name)) \in {" ", "."}

HasTraversal(name) == \E i \in 1..Len(SplitOn(name, "/")) :
  SplitOn(name, "/")[i] = ".."

\* needs_sanitization(name), is_windows() passed as win
needs_sanitization(win, name) ==
  win /\ (HasInvalidChar(name) \/ EndsWithSpaceOrDot(name)
          \/ HasTraversal(name) \/ HasReservedStem(name))

RECURSIVE ReplaceInvalid(_)
ReplaceInvalid(s) ==
  IF s = "" THEN ""
  ELSE (IF Head(s) \in InvalidChars THEN "_" ELSE Head(s)) \o ReplaceInvalid(Tail(s))

RECURSIVE StripTrailing(_)
StripTrailing(s) ==
  IF EndsWithSpaceOrDot(s) THEN StripTrailing(SubSeq(s, 1, Len(s) - 1)) ELSE s

Digits == "0123456789"

\* candidate with the numeric disambiguator n before its extension
Numbered(candidate, n) ==
  LET suffix == Suffix(candidate)
  IN SubSeq(candidate, 1, Len(candidate) - Len(suffix))
       \o "_" \o Ch(Digits, n + 1) \o suffix

RECURSIVE Disambiguate(_, _, _)
\* candidate_1, candidate_2, ... until not in existing_names
Disambiguate(candidate, existing_names, n) ==
  IF Numbered(candidate, n) \notin existing_names
  THEN Numbered(candidate, n)
  ELSE Disambiguate(candidate, existing_names, n + 1)

\* a reserved device-name stem gets the suffix "_file"
SuffixReserved(s) ==
  LET parts == NameParts(s)
  IN IF IsReserved(parts.stem) THEN parts.stem \o "_file" \o parts.suffix ELSE s

\* sanitize_filename(name, existing_names)[0] for one path component
sanitize_filename(name, existing_names) ==
  LET stripped == StripTrailing(SuffixReserved(ReplaceInvalid(name)))
      candidate == IF stripped = "" \/ stripped = ".." THEN "unnamed_file" ELSE stripped
  IN  IF candidate \in existing_names
      THEN Disambiguate(candidate, existing_names, 1)
      ELSE candidate

RECURSIVE SanitizeComponents(_)
SanitizeComponents(parts) ==
  IF parts = <<>> THEN <<>>
  ELSE IF Head(parts) = "" THEN SanitizeComponents(Tail(parts))
  ELSE <<sanitize_filename(Head(parts), {})>> \o SanitizeComponents(Tail(parts))

\* sanitize_path(path)[0]
sanitize_path(path) == Join("/", SanitizeComponents(SplitOn(path, "/")))

Values(mapping) == {mapping[i][2] : i \in 1..Len(mapping)}
Keys(mapping) == {mapping[i][1] : i \in 1..Len(mapping)}

\* Python: mapping[key] = value
MappingPut(mapping, key, value) ==
  IF key \in Keys(mapping)
  THEN [i \in 1..Len(mapping) |->
          IF mapping[i][1] = key THEN <<key, value>> ELSE mapping[i]]
  ELSE Append(mapping, <<key, value>>)

RECURSIVE BuildMapping_PerName(_, _, _)
\* variant: each name is sanitized on its own, earlier values are not looked at
BuildMapping_PerName(win, names, mapping) ==
  IF names = <<>> THEN mapping
  ELSE LET name == Head(names)
           sanitized == sanitize_path(name)
       IN  IF needs_sanitization(win, name) /\ sanitized # name
           THEN BuildMapping_PerName(win, Tail(names),
                                     MappingPut(mapping, name, sanitized))
           ELSE BuildMapping_PerName(win, Tail(names), mapping)

RECURSIVE BuildMapping(_, _, _)
\* the mapping as the ordered list of its (original, sanitized) items
BuildMapping(win, names, mapping) ==
  IF names = <<>> THEN mapping
  ELSE LET name == Head(names)
           sanitized == sanitize_path(name)
           unique == IF sanitized \in Values(mapping)
                     THEN Disambiguate(sanitized, Values(mapping), 1)
                     ELSE sanitized
       IN  IF needs_sanitization(win, name) /\ unique # name
           THEN BuildMapping(win, Tail(names), MappingPut(mapping, name, unique))
           ELSE BuildMapping(win, Tail(names), mapping)

RECURSIVE BuildMapping_AllChanged(_, _, _)
BuildMapping_AllChanged(win, names, mapping) ==
  IF names = <<>> THEN mapping
  ELSE LET name == Head(names)
           sanitized == sanitize_path(name)
           unique == IF sanitized \in Values(mapping)
                     THEN Disambiguate(sanitized, Values(mapping), 1)
                     ELSE sanitized
       IN  IF win /\ unique # name
           THEN BuildMapping_AllChanged(win, Tail(names),
                                        MappingPut(mapping, name, unique))
           ELSE BuildMapping_AllChanged(win, Tail(names), mapping)

\* variant: every name that sanitize_path rewrites becomes a key
get_sanitization_mapping_AllChanged(win, name_list) ==
  BuildMapping_AllChanged(win, name_list, <<>>)

get_sanitization_mapping(win, name_list) == BuildMapping(win, name_list, <<>>)

\* Python: mapping.get(key, default)
MappingGet(mapping, key, default) ==
  IF key \in Keys(mapping)
  THEN mapping[CHOOSE i \in 1..Len(mapping) : mapping[i][1] = key][2]
  ELSE default

\* ------------------------------------------------------------ environment
\* member names an archive may hold
MemberNames == {"a", "a*", "a?", "a_", "d/b*"}

\* archives: up to MaxMembers members with distinct names, in archive order
Archives ==
  {m \in UNION {[1..n -> MemberNames] : n \in 0..MaxMembers} :
     \A i, j \in 1..Len(m) : i # j => m[i] # m[j]}

\* paths that may already exist in the target directory
PreExisting == {"a", "a_"}

\* stderr texts of a failed archiver run ("" : nothing on stderr)
Diagnostics ==
  {"Cannot create file: invalid name", "Access is denied",
   "Archive is corrupted", "Wrong password", ""}

\* str(e) of the CalledProcessError that run_7z re-raises
StrCalledProcessError ==
  "Command '['7zz', 'x', 'test.7z', '-ooutput']' returned non-zero exit status 1."

\* content of a member as the archiver writes it
Data(name) == "data:" \o name

\* content of a file created by NamedTemporaryFile and never written
EmptyContent == "empty"

\* --------------------------------------------------------------- state
VARIABLES
  windows,               \* is_windows()
  archive,               \* member names of self.file, in archive order
  overwrite,             \* extract(path, overwrite)
  target,                \* files under path: name -> content
  pc,                    \* position inside extract()
  log,                   \* archiver invocations and sanitizer stages, in order
  error_message,         \* extract: error_message
  file_list,             \* _extract_with_sanitization: file_list
  sanitization_mapping,  \* _extract_with_sanitization: sanitization_mapping
  temp_dir,              \* the TemporaryDirectory exists
  staged,                \* files in the temporary directory: name -> content
  pending,               \* files os.walk has not yet yielded
  idx,                   \* loop position of _extract_files_individually and of create_archive
  extracted_count,       \* _extract_files_individually: extracted_count
  failed_files,          \* _extract_files_individually: failed_files
  sys_tmp,               \* files in the system temporary directory
  result,                \* how the call ended
  call,                  \* the method the caller invokes on the SevenZipFile
  mode,                  \* self.mode
  archive_exists,        \* self.file.exists()
  target_exists,         \* extract: the directory path exists
  add_name,              \* add: name
  add_name_exists,       \* add: Path(name).exists()
  san_name,              \* sanitize_filename: filename
  existing_names,        \* sanitize_filename: existing_names
  san_once,              \* what sanitize_filename(filename) returned
  san_twice,             \* what sanitize_filename of that name returned
  members,               \* the entries of self.file: name and whether a directory
  records,               \* create_archive_summary: members
  summary,               \* what create_archive_summary returned
  ratio,                 \* what the compression-ratio accessor returned, and of which record
  info,                  \* what get_archive_info returned
  reader,                \* the ArchiveStreamReader: _position, _content, _closed
  member_data,           \* the bytes archive.read(member_name) gives
  writer,                \* the ArchiveStreamWriter: _closed and its temporary file
  returned,              \* the value the last call returned
  create_files,          \* create_archive: files, each with whether it exists
  added                  \* the paths added to the archive, in order

\* the state of extract() and of its fallback stages
extractVars == <<windows, archive, overwrite, target, pc, log, error_message,
                 file_list, sanitization_mapping, temp_dir, staged, pending,
                 idx, extracted_count, failed_files, sys_tmp, result>>

\* the state of the guards of extract() and add()
guardVars == <<call, mode, archive_exists, target_exists, add_name,
               add_name_exists>>

\* the state of two successive calls of sanitize_filename
sanVars == <<san_name, existing_names, san_once, san_twice>>

\* the locals of the fallback stages of extract()
fallbackVars == <<windows, archive, overwrite, target, error_message,
                  file_list, sanitization_mapping, temp_dir, staged, pending,
                  idx, extracted_count, failed_files, sys_tmp>>

\* the state of list_contents() and namelist()
listVars == <<members>>

\* the state of the archive statistics
infoVars == <<records, summary, ratio, info>>

\* the state the fallback stages of extract() never touch
\* the stream reader and writer
streamVars == <<reader, member_data, writer, returned>>

\* create_archive
createVars == <<create_files, added>>

apiVars == <<guardVars, sanVars, listVars, infoVars, streamVars, createVars>>

\* the state the guards of extract() and add() never touch
notGuardVars == <<fallbackVars, sanVars, listVars, infoVars, streamVars,
                  createVars>>

\* the state sanitize_filename never touches
notSanVars == <<fallbackVars, guardVars, listVars, infoVars, streamVars,
                createVars>>

vars == <<extractVars, apiVars>>

EmptyFiles == [p \in {} |-> ""]

\* one entry of log: an archiver invocation (op "run_7z x", "run_7z l",
\* "run_7z e") or a step of the sanitizer stages, with how it ended
Ev(op, arg, outcome) == [op |-> op, arg |-> arg, outcome |-> outcome]

Running == [status |-> "running", kind |-> "", message |-> "", inner |-> ""]
Returned == [status |-> "returned", kind |-> "", message |-> "", inner |-> ""]

\* extract, first raise: ExtractionError(f"Failed to extract archive: {error_message}")
DirectError(msg) ==
  [status |-> "raised", kind |-> "ExtractionError",
   message |-> "Failed to extract archive: " \o msg, inner |-> ""]

\* variant: the sanitization error is not wrapped but re-raised as it is
SanitizationError_Propagate(msg, inner, inner_msg) ==
  [status |-> "raised", kind |-> inner, message |-> inner_msg, inner |-> inner]

\* extract, except Exception as sanitization_error: the ExtractionError that
\* wraps an exception of kind inner and text inner_msg
SanitizationError(msg, inner, inner_msg) ==
  [status |-> "raised", kind |-> "ExtractionError",
   message |-> "Failed to extract archive even with filename sanitization. "
               \o "Original error: " \o msg \o ". "
               \o "Sanitization error: " \o inner_msg,
   inner |-> inner]

NoProblematicMsg ==
  "No problematic filenames detected, but extraction failed. "
  \o "This might be a different type of error."
EmptyMappingMsg == "Unable to generate filename sanitization mapping"
UnableMsg == "Unable to extract any files even with sanitization. Failed files: "
ListFailedMsg == "Failed to list archive contents: "

\* extract() was called, its guards have passed and path exists
GuardsPassed ==
  /\ call = "extract"
  /\ mode = "r"
  /\ archive_exists = TRUE
  /\ target_exists = TRUE
  /\ add_name = ""
  /\ add_name_exists = FALSE

\* what sanitize_filename returns: (name, changed)
NameChanged(n, changed) == [name |-> n, changed |-> changed]

NotCalled == NameChanged("", FALSE)

\* no archive is being listed
NoListing == members = <<>>

\* a float, kept exact as the fraction num / den (den > 0)
Ratio(num, den) == [num |-> num, den |-> den]

\* no statistics have been computed
NoStatistics ==
  /\ records = <<>>
  /\ summary = [called |-> FALSE]
  /\ ratio = [called |-> FALSE]
  /\ info = [called |-> FALSE]

\* sanitize_filename has not been called
\* what a call returned: nothing (None, or it raised), bytes, or an integer
NoValue == [kind |-> "none"]
Bytes(b) == [kind |-> "bytes", bytes |-> b]
Number(n) == [kind |-> "int", int |-> n]

\* no stream object has been constructed
NoStreams ==
  /\ reader = [constructed |-> FALSE]
  /\ member_data = ""
  /\ writer = [constructed |-> FALSE]
  /\ returned = NoValue

\* create_archive has not been called
NoCreate ==
  /\ create_files = <<>>
  /\ added = <<>>

NoSanitizeCall ==
  /\ san_name = ""
  /\ existing_names = {}
  /\ san_once = NotCalled
  /\ san_twice = NotCalled

Init ==
  /\ windows \in BOOLEAN
  /\ archive \in Archives
  /\ overwrite \in BOOLEAN
  /\ target \in {[p \in S |-> "old"] : S \in SUBSET PreExisting}
  /\ pc = "start"
  /\ log = <<>>
  /\ error_message = ""
  /\ file_list = <<>>
  /\ sanitization_mapping = <<>>
  /\ temp_dir = FALSE
  /\ staged = EmptyFiles
  /\ pending = {}
  /\ idx = 1
  /\ extracted_count = 0
  /\ failed_files = <<>>
  /\ sys_tmp = EmptyFiles
  /\ result = Running
  /\ GuardsPassed
  /\ NoSanitizeCall
  /\ NoListing
  /\ NoStatistics
  /\ NoStreams
  /\ NoCreate

\* files written by "x" into a directory holding files dir
ExtractInto(dir, yes) ==
  [p \in DOMAIN dir \cup {archive[i] : i \in 1..Len(archive)} |->
     IF p \in DOMAIN dir /\ (~yes \/ \A i \in 1..Len(archive) : archive[i] # p)
     THEN dir[p] ELSE Data(p)]

\* ------------------------------------------------------------- extract()
\* run_7z(["x", file, -o path]) succeeds
Direct_Ok ==
  /\ pc = "start"
  /\ log' = Append(log, Ev("run_7z x", "target", "ok"))
  /\ target' = ExtractInto(target, overwrite)
  /\ pc' = "done"
  /\ result' = Returned
  /\ UNCHANGED <<windows, archive, overwrite, error_message, file_list,
                 sanitization_mapping, temp_dir, staged, pending, idx,
                 extracted_count, failed_files, sys_tmp>>
  /\ UNCHANGED apiVars

\* variant: every failure of the direct attempt goes on to sanitization
Direct_Fail_NoClassify(stderr) ==
  /\ pc = "start"
  /\ log' = Append(log, Ev("run_7z x", "target", "failed"))
  /\ error_message' = IF stderr # "" THEN stderr ELSE StrCalledProcessError
  /\ pc' = "sanitize"
  /\ UNCHANGED <<windows, archive, overwrite, target, file_list,
                 sanitization_mapping, temp_dir, staged, pending, idx,
                 extracted_count, failed_files, sys_tmp, result>>
  /\ UNCHANGED apiVars

\* run_7z raises CalledProcessError with this stderr
Direct_Fail(stderr) ==
  /\ pc = "start"
  /\ log' = Append(log, Ev("run_7z x", "target", "failed"))
  /\ error_message' = IF stderr # "" THEN stderr ELSE StrCalledProcessError
  /\ IF ~_is_filename_error(windows, error_message')
     THEN /\ result' = DirectError(error_message')
          /\ pc' = "done"
     ELSE /\ result' = result
          /\ pc' = "sanitize"
  /\ UNCHANGED <<windows, archive, overwrite, target, file_list,
                 sanitization_mapping, temp_dir, staged, pending, idx,
                 extracted_count, failed_files, sys_tmp>>
  /\ UNCHANGED apiVars

\* ------------------------------------------- _extract_with_sanitization()
\* list_contents(): run_7z(["l", file]) raises CalledProcessError; the
\* RuntimeError leaves _extract_with_sanitization and extract wraps it
Sanitize_ListFail(stderr) ==
  /\ pc = "sanitize"
  /\ log' = Append(log, Ev("run_7z l", "", "failed"))
  /\ result' = SanitizationError(error_message, "RuntimeError", ListFailedMsg \o stderr)
  /\ pc' = "done"
  /\ UNCHANGED <<windows, archive, overwrite, target, error_message, file_list,
                 sanitization_mapping, temp_dir, staged, pending, idx,
                 extracted_count, failed_files, sys_tmp>>
  /\ UNCHANGED apiVars

\* variant: the "if not problematic_files" test is missing
Sanitize_List_NoCheck ==
  /\ pc = "sanitize"
  /\ file_list' = list_contents(ListingStdout(archive))
  /\ log' = log \o <<Ev("run_7z l", "", "ok"),
                      Ev("get_sanitization_mapping", "", "ok")>>
  /\ sanitization_mapping' = get_sanitization_mapping(windows, file_list')
  /\ IF sanitization_mapping' = <<>>
     THEN /\ result' = SanitizationError(error_message,
                         "FilenameCompatibilityError", EmptyMappingMsg)
          /\ pc' = "done"
     ELSE /\ result' = result
          /\ pc' = "bulk"
  /\ UNCHANGED <<windows, archive, overwrite, target, error_message, temp_dir,
                 staged, pending, idx, extracted_count, failed_files, sys_tmp>>
  /\ UNCHANGED apiVars

\* list_contents() succeeds; problematic_files and the mapping are computed
Sanitize_List ==
  /\ pc = "sanitize"
  /\ file_list' = list_contents(ListingStdout(archive))
  /\ LET problematic_files ==
           SelectSeq(file_list', LAMBDA f : needs_sanitization(windows, f))
         mapping == get_sanitization_mapping(windows, file_list')
     IN  IF problematic_files = <<>>
         THEN /\ log' = Append(log, Ev("run_7z l", "", "ok"))
              /\ sanitization_mapping' = sanitization_mapping
              /\ result' = SanitizationError(error_message,
                             "FilenameCompatibilityError", NoProblematicMsg)
              /\ pc' = "done"
         ELSE /\ log' = log \o <<Ev("run_7z l", "", "ok"),
                                 Ev("get_sanitization_mapping", "", "ok")>>
              /\ sanitization_mapping' = mapping
              /\ IF mapping = <<>>
                 THEN /\ result' = SanitizationError(error_message,
                                     "FilenameCompatibilityError", EmptyMappingMsg)
                      /\ pc' = "done"
                 ELSE /\ result' = result
                      /\ pc' = "bulk"
  /\ UNCHANGED <<windows, archive, overwrite, target, error_message, temp_dir,
                 staged, pending, idx, extracted_count, failed_files, sys_tmp>>
  /\ UNCHANGED apiVars

\* tempfile.TemporaryDirectory() raises OSError
Bulk_TempDirError ==
  /\ pc = "bulk"
  /\ log' = Append(log, Ev("TemporaryDirectory", "", "error"))
  /\ result' = SanitizationError(error_message, "OSError", "OSError")
  /\ pc' = "done"
  /\ UNCHANGED <<windows, archive, overwrite, target, error_message,
                 file_list, sanitization_mapping, temp_dir, staged, pending,
                 idx, extracted_count, failed_files, sys_tmp>>
  /\ UNCHANGED apiVars

\* variant: per-file extraction is started although the bulk extraction worked
Bulk_Ok_ThenPerFile ==
  /\ pc = "bulk"
  /\ temp_dir' = TRUE
  /\ log' = Append(log, Ev("run_7z x", "temp", "ok"))
  /\ staged' = ExtractInto(EmptyFiles, overwrite)
  /\ pending' = DOMAIN staged'
  /\ pc' = "perfile"
  /\ UNCHANGED <<windows, archive, overwrite, target, error_message, file_list,
                 sanitization_mapping, idx, extracted_count, failed_files,
                 sys_tmp, result>>
  /\ UNCHANGED apiVars

\* run_7z(["x", file, -o temp_path]) succeeds
Bulk_Ok ==
  /\ pc = "bulk"
  /\ temp_dir' = TRUE
  /\ log' = Append(log, Ev("run_7z x", "temp", "ok"))
  /\ staged' = ExtractInto(EmptyFiles, overwrite)
  /\ pending' = DOMAIN staged'
  /\ pc' = "move"
  /\ UNCHANGED <<windows, archive, overwrite, target, error_message, file_list,
                 sanitization_mapping, idx, extracted_count, failed_files,
                 sys_tmp, result>>
  /\ UNCHANGED apiVars

\* run_7z(["x", file, -o temp_path]) raises CalledProcessError
Bulk_Fail ==
  /\ pc = "bulk"
  /\ temp_dir' = TRUE
  /\ log' = Append(log, Ev("run_7z x", "temp", "failed"))
  /\ idx' = 1
  /\ extracted_count' = 0
  /\ failed_files' = <<>>
  /\ pc' = "perfile"
  /\ UNCHANGED <<windows, archive, overwrite, target, error_message, file_list,
                 sanitization_mapping, staged, pending, sys_tmp, result>>
  /\ UNCHANGED apiVars

\* ------------------------------------------------ _move_sanitized_files()
Without(files, p) == [q \in DOMAIN files \ {p} |-> files[q]]
With(files, p, c) == [q \in DOMAIN files \cup {p} |-> IF q = p THEN c ELSE files[q]]

\* variant: the mapping is not consulted
MoveTarget_Original(file) == file

\* sanitization_mapping.get(original_file_str, original_file_str)
MoveTarget(file) == MappingGet(sanitization_mapping, file, file)

\* variant: the error of a move is swallowed and extract returns
Move_OSError_Swallowed(file) ==
  /\ pc = "move"
  /\ file \in pending
  /\ temp_dir' = FALSE
  /\ staged' = EmptyFiles
  /\ pending' = {}
  /\ log' = Append(log, Ev("move", file, "error"))
  /\ result' = Returned
  /\ pc' = "done"
  /\ UNCHANGED <<windows, archive, overwrite, target, error_message,
                 file_list, sanitization_mapping, idx, extracted_count,
                 failed_files, sys_tmp>>
  /\ UNCHANGED apiVars

\* mkdir or shutil.move raises OSError for a staged file: the exception leaves
\* the with-block (temporary directory removed) and extract wraps it
Move_OSError(file) ==
  /\ pc = "move"
  /\ file \in pending
  /\ temp_dir' = FALSE
  /\ staged' = EmptyFiles
  /\ pending' = {}
  /\ log' = Append(log, Ev("move", file, "error"))
  /\ result' = SanitizationError(error_message, "OSError", "OSError")
  /\ pc' = "done"
  /\ UNCHANGED <<windows, archive, overwrite, target, error_message,
                 file_list, sanitization_mapping, idx, extracted_count,
                 failed_files, sys_tmp>>
  /\ UNCHANGED apiVars

\* target_file.exists() and not overwrite: warning, continue
Move_Skip(file) ==
  /\ pc = "move"
  /\ file \in pending
  /\ MoveTarget(file) \in DOMAIN target /\ ~overwrite
  /\ pending' = pending \ {file}
  /\ log' = Append(log, Ev("move", file, "skipped"))
  /\ UNCHANGED <<windows, archive, overwrite, target, pc, error_message,
                 file_list, sanitization_mapping, temp_dir, staged, idx,
                 extracted_count, failed_files, sys_tmp, result>>
  /\ UNCHANGED apiVars

\* shutil.move(source_file, target_file)
Move_File(file) ==
  /\ pc = "move"
  /\ file \in pending
  /\ ~(MoveTarget(file) \in DOMAIN target /\ ~overwrite)
  /\ target' = With(target, MoveTarget(file), staged[file])
  /\ staged' = Without(staged, file)
  /\ pending' = pending \ {file}
  /\ log' = Append(log, Ev("move", file, "moved"))
  /\ UNCHANGED <<windows, archive, overwrite, pc, error_message, file_list,
                 sanitization_mapping, temp_dir, idx, extracted_count,
                 failed_files, sys_tmp, result>>
  /\ UNCHANGED apiVars

\* os.walk is exhausted: the with-block ends and extract returns
Move_Finish ==
  /\ pc = "move"
  /\ pending = {}
  /\ temp_dir' = FALSE
  /\ staged' = EmptyFiles
  /\ result' = Returned
  /\ pc' = "done"
  /\ UNCHANGED <<windows, archive, overwrite, target, log, error_message,
                 file_list, sanitization_mapping, pending, idx,
                 extracted_count, failed_files, sys_tmp>>
  /\ UNCHANGED apiVars

\* ---------------------------------------------- _extract_files_individually()
InLoop == pc = "perfile" /\ idx <= Len(sanitization_mapping)
original_name == sanitization_mapping[idx][1]
sanitized_name == sanitization_mapping[idx][2]

\* the file NamedTemporaryFile(delete=False) creates in this iteration
temp_path == "tmp" \o Ch(Digits, idx + 1)

\* what "e" with -o{temp_path.parent} leaves in the system temporary directory
ExtractedOut == With(sys_tmp, Basename(original_name), Data(original_name))

\* NamedTemporaryFile raises OSError: caught by "except Exception"
PerFile_TempFileError ==
  /\ InLoop
  /\ log' = Append(log, Ev("attempt", original_name, "tempfile_error"))
  /\ failed_files' = Append(failed_files, original_name)
  /\ idx' = idx + 1
  /\ UNCHANGED <<windows, archive, overwrite, target, pc, error_message,
                 file_list, sanitization_mapping, temp_dir, staged, pending,
                 extracted_count, sys_tmp, result>>
  /\ UNCHANGED apiVars

\* variant: a failed single-member extraction is tried once more
PerFile_ExtractFail_Retry ==
  /\ pc = "perfile" /\ idx <= Len(sanitization_mapping)
  /\ \A i \in 1..Len(log) :
       ~(log[i].op = "run_7z e" /\ log[i].arg = sanitization_mapping[idx][1])
  /\ log' = log \o <<Ev("run_7z e", sanitization_mapping[idx][1], "failed"),
                      Ev("attempt", sanitization_mapping[idx][1], "extract_failed")>>
  /\ UNCHANGED <<windows, archive, overwrite, target, pc, error_message,
                 file_list, sanitization_mapping, temp_dir, staged, pending,
                 idx, extracted_count, failed_files, sys_tmp, result>>
  /\ UNCHANGED apiVars

\* run_7z(["e", ...]) raises CalledProcessError: recorded, temp file unlinked
PerFile_ExtractFail ==
  /\ InLoop
  /\ log' = log \o <<Ev("run_7z e", original_name, "failed"),
                      Ev("attempt", original_name, "extract_failed")>>
  /\ failed_files' = Append(failed_files, original_name)
  /\ idx' = idx + 1
  /\ UNCHANGED <<windows, archive, overwrite, target, pc, error_message,
                 file_list, sanitization_mapping, temp_dir, staged, pending,
                 extracted_count, sys_tmp, result>>
  /\ UNCHANGED apiVars

\* variant: the OSError of mkdir is not caught inside the loop
PerFile_MkdirError_Raises ==
  /\ pc = "perfile" /\ idx <= Len(sanitization_mapping)
  /\ log' = log \o <<Ev("run_7z e", sanitization_mapping[idx][1], "ok"),
                      Ev("attempt", sanitization_mapping[idx][1], "mkdir_error")>>
  /\ temp_dir' = FALSE
  /\ result' = SanitizationError(error_message, "OSError", "OSError")
  /\ pc' = "done"
  /\ UNCHANGED <<windows, archive, overwrite, target, error_message,
                 file_list, sanitization_mapping, staged, pending, idx,
                 extracted_count, failed_files, sys_tmp>>
  /\ UNCHANGED apiVars

\* run_7z succeeds, final_path.parent.mkdir raises OSError: caught by
\* "except Exception", which does not unlink temp_path
PerFile_MkdirError ==
  /\ InLoop
  /\ log' = log \o <<Ev("run_7z e", original_name, "ok"),
                      Ev("attempt", original_name, "mkdir_error")>>
  /\ sys_tmp' = With(ExtractedOut, temp_path, EmptyContent)
  /\ failed_files' = Append(failed_files, original_name)
  /\ idx' = idx + 1
  /\ UNCHANGED <<windows, archive, overwrite, target, pc, error_message,
                 file_list, sanitization_mapping, temp_dir, staged, pending,
                 extracted_count, result>>
  /\ UNCHANGED apiVars

\* run_7z succeeds, final_path.exists() and not overwrite: warning,
\* temp file unlinked, continue
PerFile_Skip ==
  /\ InLoop
  /\ sanitized_name \in DOMAIN target /\ ~overwrite
  /\ log' = log \o <<Ev("run_7z e", original_name, "ok"),
                      Ev("attempt", original_name, "skipped")>>
  /\ sys_tmp' = ExtractedOut
  /\ idx' = idx + 1
  /\ UNCHANGED <<windows, archive, overwrite, target, pc, error_message,
                 file_list, sanitization_mapping, temp_dir, staged, pending,
                 extracted_count, failed_files, result>>
  /\ UNCHANGED apiVars

\* run_7z succeeds, shutil.move raises OSError: caught by "except Exception",
\* which does not unlink temp_path
PerFile_MoveError ==
  /\ InLoop
  /\ ~(sanitized_name \in DOMAIN target /\ ~overwrite)
  /\ log' = log \o <<Ev("run_7z e", original_name, "ok"),
                      Ev("attempt", original_name, "move_error")>>
  /\ sys_tmp' = With(ExtractedOut, temp_path, EmptyContent)
  /\ failed_files' = Append(failed_files, original_name)
  /\ idx' = idx + 1
  /\ UNCHANGED <<windows, archive, overwrite, target, pc, error_message,
                 file_list, sanitization_mapping, temp_dir, staged, pending,
                 extracted_count, result>>
  /\ UNCHANGED apiVars

\* run_7z succeeds and shutil.move(temp_path, final_path) moves the temp file
PerFile_Moved ==
  /\ InLoop
  /\ ~(sanitized_name \in DOMAIN target /\ ~overwrite)
  /\ log' = log \o <<Ev("run_7z e", original_name, "ok"),
                      Ev("attempt", original_name, "moved")>>
  /\ sys_tmp' = ExtractedOut
  /\ target' = With(target, sanitized_name, EmptyContent)
  /\ extracted_count' = extracted_count + 1
  /\ idx' = idx + 1
  /\ UNCHANGED <<windows, archive, overwrite, pc, error_message, file_list,
                 sanitization_mapping, temp_dir, staged, pending, failed_files,
                 result>>
  /\ UNCHANGED apiVars

\* Python: repr(list of str)
ListRepr(names) ==
  "[" \o Join(", ", [i \in 1..Len(names) |-> "'" \o names[i] \o "'"]) \o "]"

\* variant: any failed member makes the loop's result an error
PerFile_Finish_RaiseOnAnyFailure ==
  /\ pc = "perfile"
  /\ idx > Len(sanitization_mapping)
  /\ temp_dir' = FALSE
  /\ result' = IF extracted_count = 0 \/ failed_files # <<>>
               THEN SanitizationError(error_message, "FilenameCompatibilityError",
                                      UnableMsg \o ListRepr(failed_files))
               ELSE Returned
  /\ pc' = "done"
  /\ UNCHANGED <<windows, archive, overwrite, target, log, error_message,
                 file_list, sanitization_mapping, staged, pending, idx,
                 extracted_count, failed_files, sys_tmp>>
  /\ UNCHANGED apiVars

\* after the loop: raise when extracted_count == 0, else return; either way
\* the with-block of _extract_with_sanitization ends
PerFile_Finish ==
  /\ pc = "perfile"
  /\ idx > Len(sanitization_mapping)
  /\ temp_dir' = FALSE
  /\ result' = IF extracted_count = 0
               THEN SanitizationError(error_message, "FilenameCompatibilityError",
                                      UnableMsg \o ListRepr(failed_files))
               ELSE Returned
  /\ pc' = "done"
  /\ UNCHANGED <<windows, archive, overwrite, target, log, error_message,
                 file_list, sanitization_mapping, staged, pending, idx,
                 extracted_count, failed_files, sys_tmp>>
  /\ UNCHANGED apiVars

\* ------------------------------------------------------------ behaviours
Next ==
  \/ Direct_Ok
  \/ \E stderr \in Diagnostics : Direct_Fail(stderr)
  \/ \E stderr \in Diagnostics : Sanitize_ListFail(stderr)
  \/ Sanitize_List
  \/ Bulk_TempDirError
  \/ Bulk_Ok
  \/ Bulk_Fail
  \/ \E file \in pending : Move_OSError(file)
  \/ \E file \in pending : Move_Skip(file)
  \/ \E file \in pending : Move_File(file)
  \/ Move_Finish
  \/ PerFile_TempFileError
  \/ PerFile_ExtractFail
  \/ PerFile_MkdirError
  \/ PerFile_Skip
  \/ PerFile_MoveError
  \/ PerFile_Moved
  \/ PerFile_Finish

Spec == Init /\ [][Next]_vars

\* ------------------------------------------------------------ properties
LogHas(op, arg, outcome) == \E i \in 1..Len(log) : log[i] = Ev(op, arg, outcome)

\* the direct attempt was made and failed
DirectFailed == Len(log) >= 1 /\ log[1] = Ev("run_7z x", "target", "failed")

\* the text contains one of the known filename-error phrases, in any case
HasPhrase(text) ==
  LET lowered == lower(text)
  IN  \E k \in 1..Len(filename_error_patterns) :
        Contains(filename_error_patterns[k], lowered)

\* the diagnostic texts of the environment that contain such a phrase
RecognizedDiagnostics ==
  {d \in Diagnostics \cup {StrCalledProcessError} : HasPhrase(d)}

\* HasPhrase, looked up for the texts of the environment
RecognizedPhrase(text) ==
  IF text \in Diagnostics \cup {StrCalledProcessError}
  THEN text \in RecognizedDiagnostics
  ELSE HasPhrase(text)

\* the listing was made and succeeded
ListedOk == Len(log) >= 2 /\ log[2] = Ev("run_7z l", "", "ok")

NoneProblematic ==
  \A i \in 1..Len(file_list) : ~needs_sanitization(windows, file_list[i])

\* per-file extraction was entered
PerFileRan == LogHas("run_7z x", "temp", "failed")

\* iterations of the per-file loop that moved a file to its destination
NumMoved ==
  Cardinality({i \in 1..Len(log) : log[i].op = "attempt" /\ log[i].outcome = "moved"})

\* iterations of the per-file loop made for a member
Attempts(name) ==
  Cardinality({i \in 1..Len(log) : log[i].op = "attempt" /\ log[i].arg = name})

OnlyDirectAttempt ==
  /\ log = <<Ev("run_7z x", "target", "failed")>>
  /\ file_list = <<>>
  /\ sanitization_mapping = <<>>

\* C1: a failed direct attempt whose diagnostic text holds no recognized
\* filename-error phrase has already ended extract() with an ExtractionError
\* carrying that text; the direct attempt is the only archiver invocation and
\* neither a listing nor a mapping was made.
C1_NonFilenameFailureRaisesAtOnce ==
  (DirectFailed /\ ~RecognizedPhrase(error_message)) =>
    /\ pc = "done"
    /\ result.status = "raised"
    /\ result.kind = "ExtractionError"
    /\ Contains(error_message, result.message)
    /\ OnlyDirectAttempt

C1_Witness ==
  /\ windows
  /\ DirectFailed
  /\ error_message = "Archive is corrupted"
  /\ result.status = "raised"

\* C2: stages are entered in order: listing and mapping only after a direct
\* attempt that failed with a filename-classified diagnostic, moves only after
\* the bulk extraction into the temporary directory succeeded, per-file
\* extraction only after it failed; a successful direct attempt is the only
\* entry of the log and ends extract().
C2_StageOrder ==
  /\ \A i \in 1..Len(log) :
       /\ log[i].op \in {"run_7z l", "get_sanitization_mapping"} =>
            /\ i >= 2
            /\ DirectFailed
            /\ windows /\ RecognizedPhrase(error_message)
       /\ log[i].op = "move" =>
            \E j \in 1..(i - 1) : log[j] = Ev("run_7z x", "temp", "ok")
       /\ log[i].op \in {"run_7z e", "attempt"} =>
            \E j \in 1..(i - 1) : log[j] = Ev("run_7z x", "temp", "failed")
       /\ log[i] = Ev("run_7z x", "target", "ok") =>
            /\ Len(log) = 1
            /\ pc = "done"
            /\ result = Returned
  /\ pc \in {"sanitize", "bulk", "move", "perfile"} =>
       DirectFailed /\ windows /\ RecognizedPhrase(error_message)
  /\ pc = "move" => LogHas("run_7z x", "temp", "ok")
  /\ pc = "perfile" => LogHas("run_7z x", "temp", "failed")

C2_Witness ==
  /\ pc = "done"
  /\ result = Returned
  /\ \E i \in 1..Len(log) : log[i].op = "run_7z e" /\ log[i].outcome = "ok"

\* C3: on the constrained platform, after a filename-classified failure and a
\* listing in which no member needs sanitization, extract() has raised with a
\* message that reports that no problematic filenames were detected, and the
\* listing is the last thing it did: no staging directory, no per-file run.
C3_NoProblematicNamesRaises ==
  (windows /\ DirectFailed /\ RecognizedPhrase(error_message)
     /\ ListedOk /\ NoneProblematic) =>
    /\ pc = "done"
    /\ result.status = "raised"
    /\ Contains("No problematic filenames detected", result.message)
    /\ Len(log) = 2
    /\ ~temp_dir
    /\ staged = EmptyFiles
    /\ sys_tmp = EmptyFiles

C3_Witness ==
  /\ windows
  /\ ListedOk
  /\ file_list = <<"a", "a_">>
  /\ result.status = "raised"

\* C4: on an unconstrained platform no diagnostic text is classified as a
\* filename error, and every failed direct attempt, whatever its text, has
\* already ended extract() with the ExtractionError for that text, without a
\* listing or a mapping.
C4_UnconstrainedPlatformRaisesAtOnce ==
  /\ ~windows =>
       \A d \in Diagnostics \cup {StrCalledProcessError} :
         ~_is_filename_error(windows, d)
  /\ (~windows /\ DirectFailed) =>
       /\ pc = "done"
       /\ result.status = "raised"
       /\ result.kind = "ExtractionError"
       /\ result.message = "Failed to extract archive: " \o error_message
       /\ OnlyDirectAttempt

C4_Witness ==
  /\ ~windows
  /\ DirectFailed
  /\ RecognizedPhrase(error_message)
  /\ result.status = "raised"

\* C5: when per-file extraction has finished, it raised the "unable to
\* extract any files" error if no member was moved to its destination, and
\* returned normally if at least one was, whatever failed besides.
C5_PerFileOutcome ==
  (pc = "done" /\ PerFileRan) =>
    /\ NumMoved = 0 =>
         /\ result.status = "raised"
         /\ result.inner = "FilenameCompatibilityError"
         /\ Contains("Unable to extract any files even with sanitization",
                     result.message)
    /\ NumMoved >= 1 => result = Returned

C5_Witness ==
  /\ pc = "done"
  /\ PerFileRan
  /\ NumMoved >= 1
  /\ failed_files # <<>>
  /\ result = Returned

\* per-file temporary files still present in the system temporary directory
TempFiles ==
  DOMAIN sys_tmp \cap {"tmp" \o Ch(Digits, i + 1) : i \in 1..Len(sanitization_mapping)}

\* C6: when extract() has returned or raised, the staging directory and every
\* per-file temporary file are gone.
C6_TemporariesRemoved ==
  pc = "done" => (~temp_dir /\ staged = EmptyFiles /\ TempFiles = {})

\* C7: the per-file loop makes exactly one attempt for every pair of the
\* mapping: one for each pair already passed and none yet for the others
\* while it runs, one for each when it has ended, whatever the attempts did.
C7_EveryPairAttemptedOnce ==
  /\ pc = "perfile" =>
       \A j \in 1..Len(sanitization_mapping) :
         Attempts(sanitization_mapping[j][1]) = (IF j < idx THEN 1 ELSE 0)
  /\ (pc = "done" /\ PerFileRan) =>
       \A j \in 1..Len(sanitization_mapping) :
         Attempts(sanitization_mapping[j][1]) = 1

C7_Witness ==
  /\ pc = "done"
  /\ PerFileRan
  /\ Len(sanitization_mapping) = 2
  /\ \E i \in 1..Len(log) :
       /\ log[i].op = "attempt"
       /\ log[i].arg = sanitization_mapping[1][1]
       /\ log[i].outcome \in {"extract_failed", "skipped", "mkdir_error", "move_error"}
  /\ Attempts(sanitization_mapping[2][1]) = 1

\* the destination the mapping names for a staged file
C8_Destination(file) ==
  IF \E i \in 1..Len(sanitization_mapping) : sanitization_mapping[i][1] = file
  THEN sanitization_mapping[CHOOSE i \in 1..Len(sanitization_mapping) :
                              sanitization_mapping[i][1] = file][2]
  ELSE file

\* one staged file is taken and the walk goes on
C8_MoveStep ==
  \A file \in pending :
    (pending' = pending \ {file} /\ pc' = "move") =>
      IF C8_Destination(file) \in DOMAIN target /\ ~overwrite
      THEN target' = target /\ result' = result
      ELSE target' = [p \in DOMAIN target \cup {C8_Destination(file)} |->
                        IF p = C8_Destination(file) THEN staged[file] ELSE target[p]]

\* every member staged was moved or skipped when move-with-rename returned
C8_AllProcessed ==
  (pc = "done" /\ result = Returned /\ LogHas("run_7z x", "temp", "ok")) =>
    \A i \in 1..Len(archive) :
      LogHas("move", archive[i], "moved") \/ LogHas("move", archive[i], "skipped")

\* C8: move-with-rename moves each staged file to the destination the mapping
\* names for it, or to its own relative path when the mapping has no entry;
\* an existing destination without overwrite is left as it is, the staged
\* file is skipped without an error, and the remaining files are processed.
C8_MoveWithRename == [][pc = "move" => C8_MoveStep]_vars /\ []C8_AllProcessed

C8_Witness ==
  /\ pc = "done"
  /\ result = Returned
  /\ \E i, j \in 1..Len(log) :
       /\ i < j
       /\ log[i].op = "move" /\ log[i].outcome = "skipped"
       /\ log[j].op = "move" /\ log[j].outcome = "moved"
       /\ log[j].arg \in Keys(sanitization_mapping)

\* the Fatal transitions of the extraction state machine
Fatal ==
  \/ DirectFailed /\ ~(windows /\ RecognizedPhrase(error_message))
  \/ ListedOk /\ NoneProblematic
  \/ PerFileRan /\ NumMoved = 0

\* an error left the sanitization stage outside the per-file loop
Escaped ==
  \/ LogHas("run_7z l", "", "failed")
  \/ LogHas("get_sanitization_mapping", "", "ok") /\ sanitization_mapping = <<>>
  \/ LogHas("TemporaryDirectory", "", "error")
  \/ \E i \in 1..Len(log) : log[i].op = "move" /\ log[i].outcome = "error"

\* C9 as stated: extract() raises at the Fatal transitions and nowhere else.
C9_RaisesOnlyAtFatal ==
  pc = "done" => (result.status = "raised" <=> Fatal)

\* C9: extract() raises at the Fatal transitions and when an error leaves the
\* sanitization stage (failed listing, empty mapping, no temporary directory,
\* an error while moving a staged file), each time with an ExtractionError,
\* and returns normally otherwise; a failed bulk extraction and failed
\* members of the per-file loop are the failures it recovers from.
C9_RaisesAtFatalOrEscapedError ==
  pc = "done" =>
    /\ result.status = "raised" <=> (Fatal \/ Escaped)
    /\ result.status = "returned" <=> ~(Fatal \/ Escaped)
    /\ result.status = "raised" => result.kind = "ExtractionError"

C9_Witness ==
  /\ pc = "done"
  /\ result.status = "raised"
  /\ LogHas("run_7z l", "", "failed")
  /\ ~Fatal

\* sanitization could not proceed
CannotProceed ==
  \/ ListedOk /\ NoneProblematic
  \/ LogHas("get_sanitization_mapping", "", "ok") /\ sanitization_mapping = <<>>

\* C10 as stated: when sanitization cannot proceed the caller gets a
\* FilenameCompatibilityError, a kind other than ExtractionError.
C10_CallerGetsCompatibilityError ==
  (pc = "done" /\ CannotProceed) => result.kind = "FilenameCompatibilityError"

\* C10: when sanitization cannot proceed the FilenameCompatibilityError is
\* caught by extract(), and the caller gets an ExtractionError, the kind also
\* used for a non-filename failure, whose message holds the compatibility
\* error's text after the "even with filename sanitization" prefix; the
\* message, not the kind, tells the two cases apart.
C10_CallerGetsWrappedCompatibilityError ==
  /\ (pc = "done" /\ CannotProceed) =>
       /\ result.status = "raised"
       /\ result.kind = "ExtractionError"
       /\ result.inner = "FilenameCompatibilityError"
       /\ Contains("even with filename sanitization", result.message)
       /\ \/ Contains(NoProblematicMsg, result.message)
          \/ Contains(EmptyMappingMsg, result.message)
  /\ (DirectFailed /\ ~(windows /\ RecognizedPhrase(error_message))) =>
       /\ result.kind = "ExtractionError"
       /\ result.inner = ""
       /\ ~Contains("even with filename sanitization", result.message)

C10_Witness ==
  /\ pc = "done"
  /\ CannotProceed
  /\ result.inner = "FilenameCompatibilityError"
  /\ Contains(NoProblematicMsg, result.message)
  /\ file_list = <<"a">>

\* ------------------------------------------------ guards of extract(), add()
\* SevenZipFile(file, mode): the modes _validate_mode accepts
Modes == {"r", "w", "a"}

\* the file the SevenZipFile was constructed with
ArchiveFile == "test.7z"

\* names the caller may pass to add()
AddNames == {"test.txt", "./docs", "docs/"}

\* Python: str(Path(p)) of a relative path: "." components and empty
\* components (doubled or trailing slashes) are dropped
PathStr(p) ==
  LET parts == SplitOn(p, "/")
      kept == SelectSeq(parts, LAMBDA c : c # "" /\ c # ".")
  IN IF kept = <<>> THEN "." ELSE Join("/", kept)

Raised(kind, msg) ==
  [status |-> "raised", kind |-> kind, message |-> msg, inner |-> ""]

ExtractWriteModeMsg == "Cannot extract from archive opened in write mode"
ArchiveNotFoundMsg == "Archive not found: "
AddReadModeMsg == "Cannot add to archive opened in read mode"
FileNotFoundMsg == "File not found: "
AddFailedMsg(p, stderr) == "Failed to add " \o p \o " to archive: " \o stderr

\* no archive has been read and no fallback stage has run
NoFallbackState ==
  /\ archive = <<>>
  /\ target = EmptyFiles
  /\ error_message = ""
  /\ temp_dir = FALSE
  /\ staged = EmptyFiles
  /\ pending = {}
  /\ idx = 1
  /\ extracted_count = 0
  /\ failed_files = <<>>
  /\ sys_tmp = EmptyFiles

InitGuards ==
  /\ call \in {"extract", "add"}
  /\ mode \in Modes
  /\ archive_exists \in BOOLEAN
  /\ target_exists \in BOOLEAN
  /\ add_name \in AddNames
  /\ add_name_exists \in BOOLEAN
  /\ pc = "call"
  /\ log = <<>>
  /\ result = Running
  /\ windows \in BOOLEAN
  /\ overwrite \in BOOLEAN
  /\ file_list = <<>>
  /\ sanitization_mapping = <<>>
  /\ NoFallbackState
  /\ NoSanitizeCall
  /\ NoListing
  /\ NoStatistics
  /\ NoStreams
  /\ NoCreate

\* extract: if self.mode == "w": raise ValueError(...)
extract_WriteMode ==
  /\ pc = "call" /\ call = "extract"
  /\ mode = "w"
  /\ result' = Raised("ValueError", ExtractWriteModeMsg)
  /\ pc' = "done"
  /\ UNCHANGED <<log, notGuardVars, guardVars>>

\* variant: the directory is made before the archive is looked for
extract_ArchiveMissing_AfterMkdir ==
  /\ pc = "call" /\ call = "extract"
  /\ mode # "w"
  /\ ~archive_exists
  /\ target_exists' = TRUE
  /\ result' = Raised("FileNotFoundError",
                      ArchiveNotFoundMsg \o PathStr(ArchiveFile))
  /\ pc' = "done"
  /\ UNCHANGED <<log, notGuardVars, call, mode, archive_exists, add_name,
                 add_name_exists>>

\* extract: if not self.file.exists(): raise FileNotFoundError(...)
extract_ArchiveMissing ==
  /\ pc = "call" /\ call = "extract"
  /\ mode # "w"
  /\ ~archive_exists
  /\ result' = Raised("FileNotFoundError",
                      ArchiveNotFoundMsg \o PathStr(ArchiveFile))
  /\ pc' = "done"
  /\ UNCHANGED <<log, notGuardVars, guardVars>>

\* extract: both guards pass, path.mkdir(parents=True, exist_ok=True); the
\* call goes on with the direct attempt (Direct_Ok, Direct_Fail)
extract_Mkdir ==
  /\ pc = "call" /\ call = "extract"
  /\ mode # "w"
  /\ archive_exists
  /\ target_exists' = TRUE
  /\ pc' = "start"
  /\ UNCHANGED <<log, result, notGuardVars, call, mode, archive_exists,
                 add_name, add_name_exists>>

\* add: if self.mode == "r": raise ValueError(...)
add_ReadMode ==
  /\ pc = "call" /\ call = "add"
  /\ mode = "r"
  /\ result' = Raised("ValueError", AddReadModeMsg)
  /\ pc' = "done"
  /\ UNCHANGED <<log, notGuardVars, guardVars>>

\* add: name = Path(name); if not name.exists(): raise FileNotFoundError(...)
add_Missing ==
  /\ pc = "call" /\ call = "add"
  /\ mode # "r"
  /\ ~add_name_exists
  /\ result' = Raised("FileNotFoundError", FileNotFoundMsg \o PathStr(add_name))
  /\ pc' = "done"
  /\ UNCHANGED <<log, notGuardVars, guardVars>>

\* add: run_7z(["a", ..., str(self.file), str(name)]) succeeds
add_Ok ==
  /\ pc = "call" /\ call = "add"
  /\ mode # "r"
  /\ add_name_exists
  /\ log' = Append(log, Ev("run_7z a", PathStr(add_name), "ok"))
  /\ archive_exists' = TRUE
  /\ result' = Returned
  /\ pc' = "done"
  /\ UNCHANGED <<notGuardVars, call, mode, target_exists, add_name,
                 add_name_exists>>

\* add: run_7z raises CalledProcessError
add_Fail(stderr) ==
  /\ pc = "call" /\ call = "add"
  /\ mode # "r"
  /\ add_name_exists
  /\ log' = Append(log, Ev("run_7z a", PathStr(add_name), "failed"))
  /\ result' = Raised("RuntimeError", AddFailedMsg(PathStr(add_name), stderr))
  /\ pc' = "done"
  /\ UNCHANGED <<notGuardVars, guardVars>>

NextGuards ==
  \/ extract_WriteMode
  \/ extract_ArchiveMissing
  \/ extract_Mkdir
  \/ add_ReadMode
  \/ add_Missing
  \/ add_Ok
  \/ \E stderr \in Diagnostics : add_Fail(stderr)

SpecGuards == InitGuards /\ [][NextGuards]_vars

\* C11: a call of extract() in write mode raises the value error, a call of
\* extract() on a missing archive raises the not-found error that names the
\* archive, a call of add() in read mode raises the value error and a call of
\* add() with a missing path raises the not-found error that names the path;
\* each of these steps invokes no archiver and creates no target directory
C11_GuardsBeforeSideEffects ==
  [][pc = "call" =>
       /\ (call = "extract" /\ mode = "w")
            => result' = Raised("ValueError", ExtractWriteModeMsg)
       /\ (call = "extract" /\ mode # "w" /\ ~archive_exists)
            => /\ result'.kind = "FileNotFoundError"
               /\ Contains(ArchiveFile, result'.message)
       /\ (call = "add" /\ mode = "r")
            => result' = Raised("ValueError", AddReadModeMsg)
       /\ (call = "add" /\ mode # "r" /\ ~add_name_exists)
            => /\ result'.kind = "FileNotFoundError"
               /\ Contains(PathStr(add_name), result'.message)
       /\ result'.kind \in {"ValueError", "FileNotFoundError"}
            => /\ result'.status = "raised"
               /\ log' = log
               /\ target_exists' = target_exists
               /\ archive_exists' = archive_exists]_vars

C11_Witness ==
  /\ pc = "done"
  /\ call = "extract"
  /\ mode = "r"
  /\ ~archive_exists
  /\ ~target_exists
  /\ result = Raised("FileNotFoundError", "Archive not found: test.7z")
  /\ log = <<>>

\* ------------------------------------------ get_sanitization_mapping(names)
\* longest name list passed to get_sanitization_mapping
MaxNames == 3

\* names a listing may hold
SanNames ==
  {"file*.txt", "file?.txt", "file<.txt", "file_.txt", "ok.txt", "CON.txt",
   "name.", "d//b", "../x"}

NameLists == UNION {[1..n -> SanNames] : n \in 0..MaxNames}

InitMapping ==
  /\ windows \in BOOLEAN
  /\ file_list \in NameLists
  /\ sanitization_mapping = <<>>
  /\ pc = "call"
  /\ log = <<>>
  /\ result = Running
  /\ overwrite = FALSE
  /\ NoFallbackState
  /\ GuardsPassed
  /\ NoSanitizeCall
  /\ NoListing
  /\ NoStatistics
  /\ NoStreams
  /\ NoCreate

\* sanitization_mapping = get_sanitization_mapping(file_list)
Call_get_sanitization_mapping ==
  /\ pc = "call"
  /\ sanitization_mapping' = get_sanitization_mapping(windows, file_list)
  /\ pc' = "done"
  /\ result' = Returned
  /\ UNCHANGED <<windows, archive, overwrite, target, log, error_message,
                 file_list, temp_dir, staged, pending, idx, extracted_count,
                 failed_files, sys_tmp, apiVars>>

NextMapping == Call_get_sanitization_mapping

SpecMapping == InitMapping /\ [][NextMapping]_vars

\* C12: the values of the mapping are pairwise distinct and no key maps to
\* itself, whatever the list of names
C12_ValuesDistinctNoSelfMap ==
  pc = "done" =>
    /\ \A i, j \in 1..Len(sanitization_mapping) :
         i # j => sanitization_mapping[i][2] # sanitization_mapping[j][2]
    /\ \A i \in 1..Len(sanitization_mapping) :
         sanitization_mapping[i][1] # sanitization_mapping[i][2]

C12_Witness ==
  /\ pc = "done"
  /\ windows
  /\ file_list = <<"file*.txt", "file?.txt", "file<.txt">>
  /\ Keys(sanitization_mapping) = {"file*.txt", "file?.txt", "file<.txt"}
  /\ "file_.txt" \in Values(sanitization_mapping)

\* the listed names for which needs_sanitization is true
NeedingNames ==
  {file_list[i] : i \in {k \in 1..Len(file_list) :
                           needs_sanitization(windows, file_list[k])}}

\* C14: the keys of the mapping are exactly the listed names for which
\* needs_sanitization is true: no safe name is a key, every unsafe name is
C14_KeysAreNamesNeedingSanitization ==
  pc = "done" => Keys(sanitization_mapping) = NeedingNames

C14_Witness ==
  /\ pc = "done"
  /\ windows
  /\ file_list = <<"ok.txt", "CON.txt", "d//b">>
  /\ Keys(sanitization_mapping) = {"CON.txt"}

\* --------------------------------------------- sanitize_filename, twice
\* single path components passed to sanitize_filename
SanComponents ==
  {"file*.txt", "file_.txt", "ok.txt", "CON.txt", "CON ", "LPT1", "name.",
   "...", "..", "a b "}

\* names that may already be taken
TakenNames == {"file_.txt", "ok.txt"}

\* sanitize_filename(filename, existing_names): the name and whether it changed
sanitize_filename_result(win, filename, existing) ==
  IF ~win THEN NameChanged(filename, FALSE)
  ELSE LET new_name == sanitize_filename(filename, existing)
       IN NameChanged(new_name, new_name # filename)

InitSanitize ==
  /\ windows \in BOOLEAN
  /\ san_name \in SanComponents
  /\ existing_names \in SUBSET TakenNames
  /\ san_once = NotCalled
  /\ san_twice = NotCalled
  /\ pc = "call"
  /\ log = <<>>
  /\ result = Running
  /\ overwrite = FALSE
  /\ file_list = <<>>
  /\ sanitization_mapping = <<>>
  /\ NoListing
  /\ NoStatistics
  /\ NoFallbackState
  /\ GuardsPassed
  /\ NoStreams
  /\ NoCreate

\* sanitize_filename(san_name, existing_names)
Call_sanitize_filename ==
  /\ pc = "call"
  /\ san_once' = sanitize_filename_result(windows, san_name, existing_names)
  /\ pc' = "once"
  /\ UNCHANGED <<san_name, existing_names, san_twice, log, result, notSanVars>>

\* sanitize_filename of the name the first call returned
Call_sanitize_filename_again ==
  /\ pc = "once"
  /\ san_twice' = sanitize_filename_result(windows, san_once.name, existing_names)
  /\ pc' = "twice"
  /\ UNCHANGED <<san_name, existing_names, san_once, log, result, notSanVars>>

NextSanitize ==
  \/ Call_sanitize_filename
  \/ Call_sanitize_filename_again

SpecSanitize == InitSanitize /\ [][NextSanitize]_vars

\* C13: on the constrained platform the second sanitize_filename returns the
\* first result unchanged with changed = False, and needs_sanitization is
\* false for the name the first call returned
C13_SanitizeIdempotent ==
  (pc = "twice" /\ windows /\ existing_names = {}) =>
    /\ san_twice = NameChanged(san_once.name, FALSE)
    /\ ~needs_sanitization(windows, san_once.name)

\* ------------------------------------------- list_contents(), namelist()
\* most entries of a listed archive
MaxEntries == 3

File(n) == [name |-> n, is_dir |-> FALSE]
Dir(n) == [name |-> n, is_dir |-> TRUE]

\* entries a listed archive may hold
ListedEntries ==
  {File("a.txt"), File("my  file.txt"), File("x---y.txt"), File("docs/r.txt"),
   Dir("docs"), Dir("big   dir")}

\* archives: up to MaxEntries entries with distinct names, in archive order
ListedArchives ==
  {m \in UNION {[1..n -> ListedEntries] : n \in 0..MaxEntries} :
     \A i, j \in 1..Len(m) : i # j => m[i] # m[j]}

\* the line the archiver prints for a directory
DirLine(n) == "2023-01-01 12:00:00 D....            0            0  " \o n

\* stdout of "l" for an archive with these entries
ListingOf(entries) ==
  JoinLines(<<"", ListingHeader, ListingSeparator>>
            \o [i \in 1..Len(entries) |->
                  IF entries[i].is_dir THEN DirLine(entries[i].name)
                  ELSE EntryLine(entries[i].name)]
            \o <<ListingSeparator, ListingTotals>>)

\* namelist(): return self.list_contents()
namelist(stdout) == list_contents(stdout)

InitListing ==
  /\ call \in {"list_contents", "namelist"}
  /\ members \in ListedArchives
  /\ archive_exists \in BOOLEAN
  /\ mode = "r"
  /\ target_exists = TRUE
  /\ add_name = ""
  /\ add_name_exists = FALSE
  /\ windows \in BOOLEAN
  /\ overwrite = FALSE
  /\ file_list = <<>>
  /\ sanitization_mapping = <<>>
  /\ pc = "call"
  /\ log = <<>>
  /\ result = Running
  /\ NoFallbackState
  /\ NoSanitizeCall
  /\ NoStatistics
  /\ NoStreams
  /\ NoCreate

\* list_contents: if not self.file.exists(): raise FileNotFoundError(...)
list_Missing ==
  /\ pc = "call"
  /\ ~archive_exists
  /\ result' = Raised("FileNotFoundError",
                      ArchiveNotFoundMsg \o PathStr(ArchiveFile))
  /\ pc' = "done"
  /\ UNCHANGED <<log, fallbackVars, apiVars>>

\* list_contents: run_7z(["l", file]) raises CalledProcessError
list_Fail(stderr) ==
  /\ pc = "call"
  /\ archive_exists
  /\ log' = Append(log, Ev("run_7z l", "", "failed"))
  /\ result' = Raised("RuntimeError", ListFailedMsg \o stderr)
  /\ pc' = "done"
  /\ UNCHANGED <<fallbackVars, apiVars>>

\* list_contents: run_7z(["l", file]) succeeds and its stdout is parsed
list_Ok ==
  /\ pc = "call"
  /\ archive_exists
  /\ log' = Append(log, Ev("run_7z l", "", "ok"))
  /\ file_list' = IF call = "namelist" THEN namelist(ListingOf(members))
                  ELSE list_contents(ListingOf(members))
  /\ result' = Returned
  /\ pc' = "done"
  /\ UNCHANGED <<windows, archive, overwrite, target, error_message,
                 sanitization_mapping, temp_dir, staged, pending, idx,
                 extracted_count, failed_files, sys_tmp, apiVars>>

NextListing ==
  \/ list_Missing
  \/ \E stderr \in Diagnostics : list_Fail(stderr)
  \/ list_Ok

SpecListing == InitListing /\ [][NextListing]_vars

Listed == pc = "done" /\ result = Returned

\* the names the call returned
ReturnedNames == {file_list[i] : i \in 1..Len(file_list)}

HasSpaceRun(n) == Contains("  ", n)

HasDashRun(n) == Contains("---", n)

\* no entry of the archive has a name with the given feature
NoEntry(Has(_)) == \A i \in 1..Len(members) : ~Has(members[i].name)

\* C15: a member name with a run of consecutive spaces is returned by the
\* listing with that run intact (archives without dash runs in names)
C15_SpaceRunsPreserved ==
  (Listed /\ NoEntry(HasDashRun)) =>
    \A i \in 1..Len(members) :
      HasSpaceRun(members[i].name) => members[i].name \in ReturnedNames

\* C16: a member whose name holds a run of dashes is returned with its exact
\* name, and so is every member listed after it (archives without runs of
\* spaces in names)
C16_DashRunsDoNotEndListing ==
  (Listed /\ NoEntry(HasSpaceRun)) =>
    \A i \in 1..Len(members) :
      HasDashRun(members[i].name) =>
        \A j \in i..Len(members) : members[j].name \in ReturnedNames

\* the names of the file members, in archive order
FileNames == LET files == SelectSeq(members, LAMBDA e : ~e.is_dir)
             IN [i \in 1..Len(files) |-> files[i].name]

\* C17: namelist() returns exactly the names of the file members, in archive
\* order (archives without runs of spaces or dashes in names)
C17_NamelistFilesOnly ==
  (Listed /\ call = "namelist" /\ NoEntry(HasSpaceRun) /\ NoEntry(HasDashRun))
    => file_list = FileNames

\* ------------------------------------------------- archive statistics
\* longest sequence of records passed to create_archive_summary
MaxRecords == 2

EntryTypes == {"file", "directory", "symlink"}

\* sizes of a record, in bytes
UncompressedSizes == {0, 2}
CompressedSizes == {0, 1, 3}

\* compression methods of a record ("" : unknown, or a directory)
Methods == {"", "LZMA2:19"}

\* the records of archive entries, as far as the statistics read them
Records ==
  [entry_type : EntryTypes, uncompressed_size : UncompressedSizes,
   compressed_size : CompressedSizes, method : Methods]

RecordSeqs == UNION {[1..n -> Records] : n \in 0..MaxRecords}

\* variant: the quotient itself, compressed / uncompressed
get_compression_ratio_Quotient(r) ==
  IF r.uncompressed_size = 0 THEN Ratio(0, 1)
  ELSE Ratio(r.compressed_size, r.uncompressed_size)

\* the compression-ratio accessor of a record:
\* 1 - compressed / uncompressed, 0.0 for an empty entry, 1.0 for compressed = 0
get_compression_ratio(r) ==
  IF r.uncompressed_size = 0 THEN Ratio(0, 1)
  ELSE IF r.compressed_size = 0 THEN Ratio(1, 1)
  ELSE Ratio(r.uncompressed_size - r.compressed_size, r.uncompressed_size)

RECURSIVE Tally_AllSizes(_, _)
\* variant: the sizes of every entry are summed, whatever its type
Tally_AllSizes(rs, acc) ==
  IF rs = <<>> THEN acc
  ELSE LET r == Head(rs)
           counted ==
             IF r.entry_type = "file"
             THEN [acc EXCEPT !.file_count = @ + 1]
             ELSE IF r.entry_type = "directory"
             THEN [acc EXCEPT !.directory_count = @ + 1]
             ELSE acc
       IN Tally_AllSizes(Tail(rs),
            [counted EXCEPT
               !.total_uncompressed_size = @ + r.uncompressed_size,
               !.total_compressed_size = @ + r.compressed_size])

RECURSIVE Tally(_, _)
\* one pass over the records: entries tallied by type, sizes summed for files
Tally(rs, acc) ==
  IF rs = <<>> THEN acc
  ELSE LET r == Head(rs) IN
       Tally(Tail(rs),
         IF r.entry_type = "file"
         THEN [acc EXCEPT !.file_count = @ + 1,
                          !.total_uncompressed_size = @ + r.uncompressed_size,
                          !.total_compressed_size = @ + r.compressed_size]
         ELSE IF r.entry_type = "directory"
         THEN [acc EXCEPT !.directory_count = @ + 1]
         ELSE acc)

\* the non-empty method met most often among the file entries, the first
\* such method on a tie; "empty" when there is no entry at all
dominant_method(rs) ==
  LET ms == SelectSeq(rs, LAMBDA r : r.entry_type = "file" /\ r.method # "")
      count(m) == Cardinality({i \in 1..Len(ms) : ms[i].method = m})
      best == CHOOSE i \in 1..Len(ms) :
                /\ \A j \in 1..Len(ms) : count(ms[j].method) <= count(ms[i].method)
                /\ \A j \in 1..(i - 1) : count(ms[j].method) < count(ms[i].method)
  IN IF rs = <<>> THEN "empty"
     ELSE IF ms = <<>> THEN "unknown"
     ELSE ms[best].method

\* create_archive_summary(members)
create_archive_summary(rs) ==
  LET t == Tally(rs, [file_count |-> 0, directory_count |-> 0,
                      total_uncompressed_size |-> 0,
                      total_compressed_size |-> 0])
  IN [called |-> TRUE,
      file_count |-> t.file_count,
      directory_count |-> t.directory_count,
      total_file_count |-> Len(rs),
      total_uncompressed_size |-> t.total_uncompressed_size,
      total_compressed_size |-> t.total_compressed_size,
      compression_ratio |->
        IF t.total_uncompressed_size > 0
        THEN Ratio(t.total_uncompressed_size - t.total_compressed_size,
                   t.total_uncompressed_size)
        ELSE Ratio(0, 1),
      archive_type |-> dominant_method(rs)]

InitSummary ==
  /\ records \in RecordSeqs
  /\ summary = [called |-> FALSE]
  /\ ratio = [called |-> FALSE]
  /\ info = [called |-> FALSE]
  /\ pc = "call"
  /\ windows = FALSE
  /\ overwrite = FALSE
  /\ file_list = <<>>
  /\ sanitization_mapping = <<>>
  /\ log = <<>>
  /\ result = Running
  /\ NoFallbackState
  /\ GuardsPassed
  /\ NoSanitizeCall
  /\ NoListing
  /\ NoStreams
  /\ NoCreate

\* summary = create_archive_summary(records)
Call_create_archive_summary ==
  /\ pc = "call"
  /\ summary' = create_archive_summary(records)
  /\ pc' = "done"
  /\ UNCHANGED <<records, ratio, info, log, result, fallbackVars, guardVars,
                 sanVars, listVars>>
  /\ UNCHANGED <<streamVars, createVars>>

\* the compression-ratio accessor of the i-th record
Call_get_compression_ratio(i) ==
  /\ pc = "call"
  /\ ratio' = [called |-> TRUE, of |-> records[i],
               value |-> get_compression_ratio(records[i])]
  /\ pc' = "done"
  /\ UNCHANGED <<records, summary, info, log, result, fallbackVars, guardVars,
                 sanVars, listVars>>
  /\ UNCHANGED <<streamVars, createVars>>

NextSummary ==
  \/ Call_create_archive_summary
  \/ \E i \in 1..Len(records) : Call_get_compression_ratio(i)

SpecSummary == InitSummary /\ [][NextSummary]_vars

\* the fraction lies in the closed interval [0, 1]
InUnitInterval(q) == 0 <= q.num /\ q.num <= q.den

\* C18 as stated: for uncompressed_size > 0 and any compressed_size the
\* accessor returns a value in [0, 1]
C18_RatioInUnitInterval ==
  (ratio.called /\ ratio.of.uncompressed_size > 0) => InUnitInterval(ratio.value)

\* C18 amended: for uncompressed_size > 0 the accessor returns a value in
\* [0, 1] when compressed_size <= uncompressed_size, and a negative value
\* when compressed_size is larger
C18_RatioInUnitIntervalUnlessLarger ==
  (ratio.called /\ ratio.of.uncompressed_size > 0) =>
    IF ratio.of.compressed_size <= ratio.of.uncompressed_size
    THEN InUnitInterval(ratio.value)
    ELSE ratio.value.num < 0 /\ ratio.value.den > 0

C18_Witness ==
  /\ ratio.called
  /\ ratio.of.uncompressed_size = 2
  /\ ratio.of.compressed_size = 1
  /\ ratio.value = Ratio(1, 2)

\* the entries of the given type
OfType(t) == {i \in 1..Len(records) : records[i].entry_type = t}

RECURSIVE SumOver(_, _)
\* the sum of sizes[i] over the positions i in I
SumOver(I, sizes) ==
  IF I = {} THEN 0
  ELSE LET i == CHOOSE k \in I : TRUE IN sizes[i] + SumOver(I \ {i}, sizes)

\* C19: the summary counts the file entries and the directory entries, and
\* its two totals are the sums of the sizes of the file entries only
C19_SummaryCountsAndFileTotals ==
  summary.called =>
    /\ summary.file_count = Cardinality(OfType("file"))
    /\ summary.directory_count = Cardinality(OfType("directory"))
    /\ summary.total_uncompressed_size =
         SumOver(OfType("file"),
                 [i \in 1..Len(records) |-> records[i].uncompressed_size])
    /\ summary.total_compressed_size =
         SumOver(OfType("file"),
                 [i \in 1..Len(records) |-> records[i].compressed_size])

C19_Witness ==
  /\ summary.called
  /\ Len(records) = 2
  /\ records[1] = [entry_type |-> "directory", uncompressed_size |-> 2,
                   compressed_size |-> 3, method |-> ""]
  /\ records[2] = [entry_type |-> "file", uncompressed_size |-> 2,
                   compressed_size |-> 1, method |-> "LZMA2:19"]
  /\ summary.file_count = 1
  /\ summary.directory_count = 1
  /\ summary.total_uncompressed_size = 2
  /\ summary.total_compressed_size = 1

\* ------------------------------------------------------ get_archive_info
\* get_detailed_archive_info(archive_path) when the detailed listing succeeds:
\* one record per entry, in archive order
DetailedRecords(entries) ==
  [i \in 1..Len(entries) |->
     IF entries[i].is_dir
     THEN [entry_type |-> "directory", uncompressed_size |-> 0,
           compressed_size |-> 0, method |-> ""]
     ELSE [entry_type |-> "file", uncompressed_size |-> 1000,
           compressed_size |-> 500, method |-> "LZMA2:19"]]

\* get_archive_info: the statistics returned from the summary
DetailedInfo(s) ==
  [called |-> TRUE,
   file_count |-> s.file_count,
   directory_count |-> s.directory_count,
   total_entries |-> s.total_file_count,
   uncompressed_size |-> s.total_uncompressed_size,
   compression_ratio |-> s.compression_ratio,
   archive_type |-> s.archive_type]

\* get_archive_info: the statistics returned from the plain list of names
FallbackInfo(names) ==
  [called |-> TRUE,
   file_count |-> Len(names),
   directory_count |-> 0,
   total_entries |-> Len(names),
   uncompressed_size |-> 0,
   compression_ratio |-> Ratio(0, 1),
   archive_type |-> "unknown"]

InitInfo ==
  /\ members \in ListedArchives
  /\ archive_exists \in BOOLEAN
  /\ call = "get_archive_info"
  /\ mode = "r"
  /\ target_exists = TRUE
  /\ add_name = ""
  /\ add_name_exists = FALSE
  /\ windows \in BOOLEAN
  /\ overwrite = FALSE
  /\ file_list = <<>>
  /\ sanitization_mapping = <<>>
  /\ pc = "call"
  /\ log = <<>>
  /\ result = Running
  /\ NoFallbackState
  /\ NoSanitizeCall
  /\ NoStatistics
  /\ NoStreams
  /\ NoCreate

\* if not Path(archive_path).exists(): raise FileNotFoundError(...)
info_Missing ==
  /\ pc = "call"
  /\ ~archive_exists
  /\ result' = Raised("FileNotFoundError",
                      ArchiveNotFoundMsg \o PathStr(ArchiveFile))
  /\ pc' = "done"
  /\ UNCHANGED <<log, fallbackVars, apiVars>>

\* try: the detailed listing and the summary succeed
info_Detailed ==
  /\ pc = "call"
  /\ archive_exists
  /\ log' = Append(log, Ev("run_7z l -slt", "", "ok"))
  /\ records' = DetailedRecords(members)
  /\ summary' = create_archive_summary(records')
  /\ info' = DetailedInfo(summary')
  /\ result' = Returned
  /\ pc' = "done"
  /\ UNCHANGED <<ratio, fallbackVars, guardVars, sanVars, listVars>>
  /\ UNCHANGED <<streamVars, createVars>>

\* variant: the error of the detailed listing reaches the caller
info_DetailedFail_Raises ==
  /\ pc = "call"
  /\ archive_exists
  /\ log' = Append(log, Ev("run_7z l -slt", "", "failed"))
  /\ result' = Raised("RuntimeError", "Parser failed")
  /\ pc' = "done"
  /\ UNCHANGED <<fallbackVars, apiVars>>

\* except Exception: the detailed listing raised, the fallback is taken
info_DetailedFail ==
  /\ pc = "call"
  /\ archive_exists
  /\ log' = Append(log, Ev("run_7z l -slt", "", "failed"))
  /\ pc' = "fallback"
  /\ UNCHANGED <<result, fallbackVars, apiVars>>

\* fallback: sz.namelist() succeeds
info_Fallback ==
  /\ pc = "fallback"
  /\ log' = Append(log, Ev("run_7z l", "", "ok"))
  /\ file_list' = namelist(ListingOf(members))
  /\ info' = FallbackInfo(file_list')
  /\ result' = Returned
  /\ pc' = "done"
  /\ UNCHANGED <<windows, archive, overwrite, target, error_message,
                 sanitization_mapping, temp_dir, staged, pending, idx,
                 extracted_count, failed_files, sys_tmp, records, summary,
                 ratio, guardVars, sanVars, listVars>>
  /\ UNCHANGED <<streamVars, createVars>>

\* fallback: sz.namelist() raises, nothing catches it
info_FallbackFail(stderr) ==
  /\ pc = "fallback"
  /\ log' = Append(log, Ev("run_7z l", "", "failed"))
  /\ result' = Raised("RuntimeError", ListFailedMsg \o stderr)
  /\ pc' = "done"
  /\ UNCHANGED <<fallbackVars, apiVars>>

NextInfo ==
  \/ info_Missing
  \/ info_Detailed
  \/ info_DetailedFail
  \/ info_Fallback
  \/ \E stderr \in Diagnostics : info_FallbackFail(stderr)

SpecInfo == InitInfo /\ [][NextInfo]_vars

\* C20: when the detailed listing raised and the plain listing succeeded,
\* get_archive_info returns the fallback statistics counted from the listed
\* names; it raises only for a missing archive, before any listing, or when
\* the plain listing failed as well
C20_FallbackStatistics ==
  pc = "done" =>
    /\ (LogHas("run_7z l -slt", "", "failed") /\ LogHas("run_7z l", "", "ok"))
         => /\ result = Returned
            /\ info.file_count = Len(file_list)
            /\ info.total_entries = Len(file_list)
            /\ info.directory_count = 0
            /\ info.uncompressed_size = 0
            /\ info.compression_ratio = Ratio(0, 1)
            /\ info.archive_type = "unknown"
    /\ ~archive_exists
         => /\ result.status = "raised"
            /\ result.kind = "FileNotFoundError"
            /\ log = <<>>
    /\ result.status = "raised"
         => ~archive_exists \/ LogHas("run_7z l", "", "failed")

C20_Witness ==
  /\ pc = "done"
  /\ log = <<Ev("run_7z l -slt", "", "failed"), Ev("run_7z l", "", "ok")>>
  /\ members = <<File("a.txt"), File("docs/r.txt")>>
  /\ result = Returned
  /\ info = FallbackInfo(<<"a.txt", "docs/r.txt">>)

\* -------------------------------------------------- ArchiveStreamReader
\* how far below zero the position may have fallen for read() to be called
\* once more with a size below -1
MaxUnderrun == 3

\* the bytes of the member the reader was constructed for
MemberContents == {"", "ab", "a\nbc\n"}

\* arguments of read, read1 and readline
Sizes == {-2, -1, 0, 1, 3}

\* lengths of the buffer given to readinto
BufferLengths == {0, 2}

\* arguments of seek
Offsets == {-4, -1, 0, 1, 6}
Whences == {0, 1, 2, 3}

\* io.SEEK_SET, io.SEEK_CUR, io.SEEK_END
SEEK_SET == 0
SEEK_CUR == 1
SEEK_END == 2

Min(a, b) == IF a <= b THEN a ELSE b
Max(a, b) == IF a >= b THEN a ELSE b

\* Python: a slice bound i of a sequence of length n
PyIndex(i, n) == IF i < 0 THEN Max(0, i + n) ELSE Min(i, n)

\* Python: s[a:b]
PySlice(s, a, b) ==
  LET lo == PyIndex(a, Len(s))
      hi == PyIndex(b, Len(s))
  IN IF lo >= hi THEN "" ELSE SubSeq(s, lo + 1, hi)

\* Python: s.find(c, a, b) for a single byte c
PyFind(s, c, a, b) ==
  LET lo == PyIndex(a, Len(s))
      hi == PyIndex(b, Len(s))
      hits == {i \in lo..(hi - 1) : Ch(s, i + 1) = c}
  IN IF hits = {} THEN -1 ELSE CHOOSE i \in hits : \A j \in hits : i <= j

\* self._content: None, or the loaded bytes
None == <<>>
Some(b) == <<b>>

ClosedStreamMsg == "I/O operation on closed stream"
MemberName == "test.txt"
ReadFailedMsg == "Failed to read '" \o MemberName \o "': "
InvalidWhenceMsg == "Invalid whence value: "

\* ArchiveStreamReader.__init__ for a member the archive lists
NewReader ==
  [constructed |-> TRUE, _position |-> 0, _content |-> None, _closed |-> FALSE]

\* what a reader method leaves alone
readerFrame ==
  <<fallbackVars, pc, log, mode, archive_exists, target_exists, add_name,
    add_name_exists, sanVars, listVars, infoVars, member_data, writer,
    createVars>>

InitReader ==
  /\ reader = NewReader
  /\ member_data \in MemberContents
  /\ writer = [constructed |-> FALSE]
  /\ returned = NoValue
  /\ call = "__init__"
  /\ mode = "r"
  /\ archive_exists = TRUE
  /\ target_exists = TRUE
  /\ add_name = ""
  /\ add_name_exists = FALSE
  /\ windows = FALSE
  /\ overwrite = FALSE
  /\ file_list = <<>>
  /\ sanitization_mapping = <<>>
  /\ pc = "stream"
  /\ log = <<>>
  /\ result = Returned
  /\ NoFallbackState
  /\ NoSanitizeCall
  /\ NoListing
  /\ NoStatistics
  /\ NoCreate

\* the call raises and leaves the reader as it is
ReaderRaises(kind, msg) ==
  /\ result' = Raised(kind, msg)
  /\ returned' = NoValue
  /\ UNCHANGED reader

\* the call returns value and leaves the reader as r
ReaderReturns(r, value) ==
  /\ result' = Returned
  /\ returned' = value
  /\ reader' = r

\* _ensure_content_loaded succeeded, or had nothing to do
WithContent == IF reader._content = None THEN member_data ELSE reader._content[1]

\* read(size) once _check_closed and _ensure_content_loaded have passed
ReadBytes(size) ==
  LET content == WithContent
      end_pos == IF size = -1 THEN Len(content)
                 ELSE Min(reader._position + size, Len(content))
      data == IF size = -1
              THEN PySlice(content, reader._position, Len(content))
              ELSE PySlice(content, reader._position, end_pos)
  IN [data |-> data,
      reader |-> [reader EXCEPT !._content = Some(content), !._position = end_pos]]

\* read(size) and read1(size); load_ok: archive.read(member_name) succeeds
reader_read(method, size, load_ok) ==
  /\ reader.constructed
  /\ size < -1 => reader._position > -MaxUnderrun
  /\ call' = method
  /\ IF reader._closed THEN ReaderRaises("ValueError", ClosedStreamMsg)
     ELSE IF reader._content = None /\ ~load_ok
     THEN ReaderRaises("OperationError", ReadFailedMsg \o "boom")
     ELSE ReaderReturns(ReadBytes(size).reader, Bytes(ReadBytes(size).data))
  /\ UNCHANGED readerFrame

\* readinto(b) with len(b) = n
reader_readinto(n, load_ok) ==
  /\ reader.constructed
  /\ call' = "readinto"
  /\ IF reader._closed THEN ReaderRaises("ValueError", ClosedStreamMsg)
     ELSE IF reader._content = None /\ ~load_ok
     THEN ReaderRaises("OperationError", ReadFailedMsg \o "boom")
     ELSE ReaderReturns(ReadBytes(n).reader, Number(Len(ReadBytes(n).data)))
  /\ UNCHANGED readerFrame

\* readline(size)
reader_readline(size, load_ok) ==
  /\ reader.constructed
  /\ call' = "readline"
  /\ IF reader._closed THEN ReaderRaises("ValueError", ClosedStreamMsg)
     ELSE IF reader._content = None /\ ~load_ok
     THEN ReaderRaises("OperationError", ReadFailedMsg \o "boom")
     ELSE LET content == WithContent
              start_pos == reader._position
              search_end == IF size > 0 THEN Min(start_pos + size, Len(content))
                            ELSE Len(content)
              newline_pos == PyFind(content, "\n", start_pos, search_end)
              end_pos == IF newline_pos = -1 THEN search_end ELSE newline_pos + 1
              loaded == [reader EXCEPT !._content = Some(content)]
          IN IF start_pos >= Len(content)
             THEN ReaderReturns(loaded, Bytes(""))
             ELSE ReaderReturns([loaded EXCEPT !._position = end_pos],
                                Bytes(PySlice(content, start_pos, end_pos)))
  /\ UNCHANGED readerFrame

\* variant: tell without _check_closed
reader_tell_Unchecked ==
  /\ reader.constructed
  /\ call' = "tell"
  /\ ReaderReturns(reader, Number(reader._position))
  /\ UNCHANGED readerFrame

\* seek(offset, whence)
reader_seek(offset, whence, load_ok) ==
  /\ reader.constructed
  /\ call' = "seek"
  /\ IF reader._closed THEN ReaderRaises("ValueError", ClosedStreamMsg)
     ELSE IF reader._content = None /\ ~load_ok
     THEN ReaderRaises("OperationError", ReadFailedMsg \o "boom")
     ELSE LET content == WithContent
              new_pos == IF whence = SEEK_SET THEN offset
                         ELSE IF whence = SEEK_CUR THEN reader._position + offset
                         ELSE Len(content) + offset
              position == Max(0, Min(new_pos, Len(content)))
          IN IF whence \notin {SEEK_SET, SEEK_CUR, SEEK_END}
             THEN /\ result' = Raised("ValueError",
                                      InvalidWhenceMsg \o Ch(Digits, whence + 1))
                  /\ returned' = NoValue
                  /\ reader' = [reader EXCEPT !._content = Some(content)]
             ELSE ReaderReturns([reader EXCEPT !._content = Some(content),
                                               !._position = position],
                                Number(position))
  /\ UNCHANGED readerFrame

\* tell()
reader_tell ==
  /\ reader.constructed
  /\ call' = "tell"
  /\ IF reader._closed THEN ReaderRaises("ValueError", ClosedStreamMsg)
     ELSE ReaderReturns(reader, Number(reader._position))
  /\ UNCHANGED readerFrame

\* close(), and __exit__, which calls it
reader_close(method) ==
  /\ reader.constructed
  /\ call' = method
  /\ IF reader._closed THEN ReaderReturns(reader, NoValue)
     ELSE ReaderReturns([reader EXCEPT !._closed = TRUE, !._content = None],
                        NoValue)
  /\ UNCHANGED readerFrame

NextReader ==
  \/ \E method \in {"read", "read1"}, size \in Sizes, load_ok \in BOOLEAN :
       reader_read(method, size, load_ok)
  \/ \E n \in BufferLengths, load_ok \in BOOLEAN : reader_readinto(n, load_ok)
  \/ \E size \in Sizes, load_ok \in BOOLEAN : reader_readline(size, load_ok)
  \/ \E offset \in Offsets, whence \in Whences, load_ok \in BOOLEAN :
       reader_seek(offset, whence, load_ok)
  \/ reader_tell
  \/ \E method \in {"close", "__exit__"} : reader_close(method)

SpecReader == InitReader /\ [][NextReader]_vars

ReadingMethods == {"read", "read1", "readinto", "readline", "seek", "tell"}
ClosingMethods == {"close", "__exit__"}

\* C21: once the reader is closed, every read, read1, readinto, readline, seek
\* and tell raises ValueError and leaves the reader as it is, close() and
\* __exit__() return and change nothing, so closed stays true; the reader is
\* open until close() is called, and close() or leaving the with-block
\* (__exit__) closes it
C21_ClosedReaderRejectsCalls ==
  [][/\ reader._closed =>
          /\ reader' = reader
          /\ call' \in ReadingMethods =>
               result' = Raised("ValueError", ClosedStreamMsg)
          /\ call' \in ClosingMethods => result' = Returned
     /\ (~reader._closed /\ reader'._closed) => call' \in ClosingMethods
     /\ call' \in ClosingMethods => reader'._closed]_vars

C21_Witness ==
  /\ reader._closed
  /\ reader._position = 2
  /\ call = "tell"
  /\ result = Raised("ValueError", ClosedStreamMsg)

\* the bytes a call returned are a contiguous piece of the member's content
PieceOfContent(b) ==
  \E lo \in 0..Len(member_data), hi \in 0..Len(member_data) :
    b = PySlice(member_data, lo, hi)

\* C29: on an open reader the position is between 0 and the length of the
\* member's content after any sequence of read, read1, readline and seek
\* calls, and the bytes a call returns are a piece of the content
C29_PositionWithinContent ==
  (reader.constructed /\ ~reader._closed) =>
    /\ 0 <= reader._position
    /\ reader._position <= Len(member_data)
    /\ returned.kind = "bytes" => PieceOfContent(returned.bytes)

\* -------------------------------------------------- ArchiveStreamWriter
\* how many bytes may have been written for write() to be called once more
MaxWritten == 3

\* arguments of write: bytes-like chunks, and a value that is not bytes-like
Chunks == {"", "x", "yz"}
NotBytes == [kind |-> "str"]

NotBytesMsg == "Data must be bytes-like object"
WriteFailedMsg == "Failed to write '" \o MemberName \o "': "

\* ArchiveStreamWriter.__init__: NamedTemporaryFile(delete=False), closed at once
NewWriter == [constructed |-> TRUE, _closed |-> FALSE, temp_file |-> Some("")]

\* what a writer method leaves alone
writerFrame ==
  <<fallbackVars, pc, mode, archive_exists, target_exists, add_name,
    add_name_exists, sanVars, listVars, infoVars, member_data, reader,
    createVars>>

InitWriter ==
  /\ writer = NewWriter
  /\ reader = [constructed |-> FALSE]
  /\ member_data = ""
  /\ returned = NoValue
  /\ call = "__init__"
  /\ mode \in {"w", "a", "r"}
  /\ archive_exists = TRUE
  /\ target_exists = TRUE
  /\ add_name = ""
  /\ add_name_exists = FALSE
  /\ windows = FALSE
  /\ overwrite = FALSE
  /\ file_list = <<>>
  /\ sanitization_mapping = <<>>
  /\ pc = "stream"
  /\ log = <<>>
  /\ result = Returned
  /\ NoFallbackState
  /\ NoSanitizeCall
  /\ NoListing
  /\ NoStatistics
  /\ NoCreate

\* the bytes in the temporary file ("" when it does not exist)
Buffered == IF writer.temp_file = None THEN "" ELSE writer.temp_file[1]

\* write(data)
writer_write(data) ==
  /\ writer.constructed
  /\ ~writer._closed => Len(Buffered) < MaxWritten
  /\ call' = "write"
  /\ IF writer._closed
     THEN /\ result' = Raised("ValueError", ClosedStreamMsg)
          /\ returned' = NoValue
          /\ UNCHANGED writer
     ELSE IF data = NotBytes
     THEN /\ result' = Raised("TypeError", NotBytesMsg)
          /\ returned' = NoValue
          /\ UNCHANGED writer
     ELSE /\ writer' = [writer EXCEPT !.temp_file = Some(Buffered \o data.bytes)]
          /\ result' = Returned
          /\ returned' = Number(Len(data.bytes))
  /\ UNCHANGED <<log, writerFrame>>

\* flush()
writer_flush ==
  /\ writer.constructed
  /\ call' = "flush"
  /\ result' = IF writer._closed THEN Raised("ValueError", ClosedStreamMsg)
               ELSE Returned
  /\ returned' = NoValue
  /\ UNCHANGED <<writer, log, writerFrame>>

\* seek() and tell(): self._temp_file is never assigned
writer_seek_tell(method) ==
  /\ writer.constructed
  /\ call' = method
  /\ result' = IF writer._closed THEN Raised("ValueError", ClosedStreamMsg)
               ELSE Raised("AttributeError", "_temp_file")
  /\ returned' = NoValue
  /\ UNCHANGED <<writer, log, writerFrame>>

\* the finally block of close(): unlink, whose error is logged and dropped
Cleanup(unlink_ok) ==
  /\ writer' = [writer EXCEPT !._closed = TRUE,
                              !.temp_file = IF unlink_ok THEN None ELSE @]
  /\ returned' = NoValue

\* variant: a failed commit leaves the writer open
writer_close_OpenAfterError(method, add_ok, unlink_ok) ==
  /\ writer.constructed
  /\ call' = method
  /\ IF writer._closed
     THEN /\ result' = Returned
          /\ returned' = NoValue
          /\ UNCHANGED <<writer, log>>
     ELSE IF mode # "r" /\ add_ok
     THEN /\ log' = log \o <<Ev("archive.add", Buffered, "ok"),
                              Ev("unlink", "temp", IF unlink_ok THEN "ok" ELSE "failed")>>
          /\ result' = Returned
          /\ Cleanup(unlink_ok)
     ELSE /\ log' = Append(log, Ev("archive.add", Buffered, "failed"))
          /\ result' = Raised("OperationError", WriteFailedMsg \o "boom")
          /\ returned' = NoValue
          /\ UNCHANGED writer
  /\ UNCHANGED writerFrame

\* close(), and __exit__, which calls it; add_ok: run_7z succeeds in
\* archive.add; unlink_ok: the temporary file can be removed
writer_close(method, add_ok, unlink_ok) ==
  /\ writer.constructed
  /\ call' = method
  /\ IF writer._closed
     THEN /\ result' = Returned
          /\ returned' = NoValue
          /\ UNCHANGED <<writer, log>>
     ELSE /\ log' = log \o
                 <<Ev("archive.add", Buffered,
                      IF mode # "r" /\ add_ok THEN "ok" ELSE "failed"),
                   Ev("unlink", "temp", IF unlink_ok THEN "ok" ELSE "failed")>>
          /\ result' = IF mode # "r" /\ add_ok THEN Returned
                       ELSE Raised("OperationError", WriteFailedMsg \o "boom")
          /\ Cleanup(unlink_ok)
  /\ UNCHANGED writerFrame

NextWriter ==
  \/ \E data \in {Bytes(c) : c \in Chunks} \cup {NotBytes} : writer_write(data)
  \/ writer_flush
  \/ \E method \in {"seek", "tell"} : writer_seek_tell(method)
  \/ \E method \in ClosingMethods, add_ok \in BOOLEAN, unlink_ok \in BOOLEAN :
       writer_close(method, add_ok, unlink_ok)

SpecWriter == InitWriter /\ [][NextWriter]_vars

\* the calls of archive.add so far
Commits == {i \in 1..Len(log) : log[i].op = "archive.add"}

\* archive.add is called at most once, by the first close() or __exit__(),
\* with the bytes written so far; after that call the writer is closed and
\* every write() raises ValueError
CommitOnceThenClosed ==
  /\ [](Cardinality(Commits) <= 1)
  /\ [][/\ log' # log =>
            /\ ~writer._closed
            /\ call' \in ClosingMethods
            /\ log'[1] = Ev("archive.add", Buffered, log'[1].outcome)
        /\ call' \in ClosingMethods => writer'._closed
        /\ (writer._closed /\ call' = "write") =>
             /\ result' = Raised("ValueError", ClosedStreamMsg)
             /\ writer' = writer]_vars

\* C22 as stated: ... and a closed writer's temporary file has been removed
C22_CommitOnceClosedTempRemoved ==
  /\ CommitOnceThenClosed
  /\ [](writer._closed => writer.temp_file = None)

\* C22: archive.add is called at most once, by the first close() or
\* __exit__(), with the bytes written so far; whether that close returned or
\* raised, the writer is then closed and every later write() raises
\* ValueError; its temporary file has been removed unless removing it failed
C22_CommitOnceClosedTempRemovedUnlessUnlinkFails ==
  /\ CommitOnceThenClosed
  /\ []((writer._closed /\ ~LogHas("unlink", "temp", "failed"))
          => writer.temp_file = None)

C22_Witness ==
  /\ writer._closed
  /\ writer.temp_file = None
  /\ log = <<Ev("archive.add", "xyz", "failed"), Ev("unlink", "temp", "ok")>>
  /\ call = "write"
  /\ result = Raised("ValueError", ClosedStreamMsg)

\* ------------------------------------- extract(): what reaches the target
\* the per-file stage ran and this member's file was moved to its destination
MovedIndividually(i) ==
  LogHas("attempt", sanitization_mapping[i][1], "moved")

\* C23: in per-file extraction the file moved to the sanitized destination is
\* the file the archiver wrote for that member, so the destination holds the
\* member's content and not an empty placeholder
C23_PerFileMovesExtractedMember ==
  \A i \in 1..Len(sanitization_mapping) :
    MovedIndividually(i) =>
      /\ sanitization_mapping[i][2] \in DOMAIN target
      /\ target[sanitization_mapping[i][2]] = Data(sanitization_mapping[i][1])

\* C24: a per-file run in which no member failed to extract (each was moved,
\* or skipped because its destination exists and overwrite is off) returns
C24_SkippedMembersAreNotFailures ==
  (pc = "done" /\ PerFileRan /\ failed_files = <<>>) => result = Returned

\* the target directory was empty when extract() was called: it holds no
\* earlier file, and none could have been replaced
TargetWasEmpty ==
  /\ ~overwrite
  /\ \A p \in DOMAIN target : target[p] # "old"

\* C26: when extract() returns into a target that was empty and no member is
\* recorded as failed, every member of the archive is in the target, under
\* its sanitized name if the mapping has it as a key, else under its own name
C26_EveryMemberExtracted ==
  (pc = "done" /\ result = Returned /\ failed_files = <<>> /\ TargetWasEmpty) =>
    \A i \in 1..Len(archive) :
      MappingGet(sanitization_mapping, archive[i], archive[i]) \in DOMAIN target

\* C27: no sanitized name of the mapping is the unchanged name of another
\* member of the listing, and move-with-rename into a target that was empty
\* never finds a destination taken
C27_DestinationsDistinct ==
  /\ \A i \in 1..Len(sanitization_mapping), j \in 1..Len(file_list) :
       file_list[j] \notin Keys(sanitization_mapping) =>
         sanitization_mapping[i][2] # file_list[j]
  /\ TargetWasEmpty =>
       \A i \in 1..Len(log) : ~(log[i].op = "move" /\ log[i].outcome = "skipped")

\* --------------------------------------------- extract(): termination
\* the sequential program always takes its next step
FairSpec == Spec /\ WF_vars(Next)

\* how many times the archiver was invoked with this command and argument
Invocations(op, arg) ==
  Cardinality({i \in 1..Len(log) : log[i].op = op /\ log[i].arg = arg})

\* the stages of extract(), in the order they can be entered
StageRank(p) ==
  CASE p = "start" -> 0
    [] p = "sanitize" -> 1
    [] p = "bulk" -> 2
    [] p \in {"move", "perfile"} -> 3
    [] p = "done" -> 4

\* C28: every extract() call ends, after at most one direct attempt, one
\* listing, one bulk extraction and one single-member extraction per mapping
\* entry (and none for other names); no stage is entered again once left
C28_TerminatesWithBoundedInvocations ==
  /\ [](/\ Invocations("run_7z x", "target") <= 1
        /\ Invocations("run_7z l", "") <= 1
        /\ Invocations("run_7z x", "temp") <= 1
        /\ \A i \in 1..Len(log) :
             log[i].op = "run_7z e" =>
               /\ log[i].arg \in Keys(sanitization_mapping)
               /\ Invocations("run_7z e", log[i].arg) = 1)
  /\ [][\/ StageRank(pc') > StageRank(pc)
        \/ pc' = pc /\ pc \in {"move", "perfile"}]_vars
  /\ <>(pc = "done")

C28_Witness ==
  /\ pc = "done"
  /\ Len(sanitization_mapping) = 2
  /\ Invocations("run_7z x", "target") = 1
  /\ Invocations("run_7z l", "") = 1
  /\ Invocations("run_7z x", "temp") = 1
  /\ \A i \in 1..2 : Invocations("run_7z e", sanitization_mapping[i][1]) = 1

\* ----------------------------------------------------- SevenZipFile.read
\* names read() is asked for, and the archives it is asked of
ReadNames == {"a.txt", "puzzles/puzzle 10.txt", "missing.txt"}
ReadMembers == {"a.txt", "puzzles/puzzle 10.txt", "b.txt"}
ReadArchives ==
  {m \in UNION {[1..n -> ReadMembers] : n \in 0..MaxMembers} :
     \A i, j \in 1..Len(m) : i # j => m[i] # m[j]}

ReadWriteModeMsg == "Cannot read from archive opened in write mode"
NotInArchiveMsg == "File not found in archive: "
ReadExtractFailedMsg(n, stderr) == "Failed to extract file " \o n \o ": " \o stderr

\* what "e" with -o{tmpdir} and one member name leaves in tmpdir: the named
\* member, if the archive has it, under its base name
ExtractedFlat(n) ==
  IF \E i \in 1..Len(archive) : archive[i] = n
  THEN [p \in {Basename(n)} |-> Data(n)]
  ELSE EmptyFiles

\* what read() leaves alone
readFrame ==
  <<windows, archive, overwrite, target, error_message, file_list,
    sanitization_mapping, temp_dir, staged, pending, idx, extracted_count,
    failed_files, sys_tmp, guardVars, sanVars, listVars, infoVars, reader,
    member_data, writer, createVars>>

InitRead ==
  /\ archive \in ReadArchives
  /\ mode \in Modes
  /\ archive_exists \in BOOLEAN
  /\ call = "read"
  /\ target_exists = TRUE
  /\ add_name = ""
  /\ add_name_exists = FALSE
  /\ windows = FALSE
  /\ overwrite = FALSE
  /\ file_list = <<>>
  /\ sanitization_mapping = <<>>
  /\ target = EmptyFiles
  /\ error_message = ""
  /\ temp_dir = FALSE
  /\ staged = EmptyFiles
  /\ pending = {}
  /\ idx = 1
  /\ extracted_count = 0
  /\ failed_files = <<>>
  /\ sys_tmp = EmptyFiles
  /\ pc = "call"
  /\ log = <<>>
  /\ result = Running
  /\ NoSanitizeCall
  /\ NoListing
  /\ NoStatistics
  /\ NoStreams
  /\ NoCreate

\* if self.mode == "w": raise ValueError(...)
read_WriteMode ==
  /\ pc = "call"
  /\ mode = "w"
  /\ result' = Raised("ValueError", ReadWriteModeMsg)
  /\ returned' = NoValue
  /\ pc' = "done"
  /\ UNCHANGED <<log, readFrame>>

\* if not self.file.exists(): raise FileNotFoundError(...)
read_Missing ==
  /\ pc = "call"
  /\ mode # "w"
  /\ ~archive_exists
  /\ result' = Raised("FileNotFoundError",
                      ArchiveNotFoundMsg \o PathStr(ArchiveFile))
  /\ returned' = NoValue
  /\ pc' = "done"
  /\ UNCHANGED <<log, readFrame>>

\* run_7z(["e", file, -o tmpdir, name, "-y"]) raises CalledProcessError
read_Fail(n, stderr) ==
  /\ pc = "call"
  /\ mode # "w"
  /\ archive_exists
  /\ log' = Append(log, Ev("run_7z e", n, "failed"))
  /\ result' = Raised("RuntimeError", ReadExtractFailedMsg(n, stderr))
  /\ returned' = NoValue
  /\ pc' = "done"
  /\ UNCHANGED readFrame

\* run_7z succeeds; extracted_file = Path(tmpdir) / name is read if it
\* exists; the temporary directory is removed when the with-block ends
read_Ok(n) ==
  /\ pc = "call"
  /\ mode # "w"
  /\ archive_exists
  /\ log' = Append(log, Ev("run_7z e", n, "ok"))
  /\ IF n \in DOMAIN ExtractedFlat(n)
     THEN /\ result' = Returned
          /\ returned' = Bytes(ExtractedFlat(n)[n])
     ELSE /\ result' = Raised("FileNotFoundError", NotInArchiveMsg \o n)
          /\ returned' = NoValue
  /\ pc' = "done"
  /\ UNCHANGED readFrame

NextRead ==
  \/ read_WriteMode
  \/ read_Missing
  \/ \E n \in ReadNames, stderr \in Diagnostics : read_Fail(n, stderr)
  \/ \E n \in ReadNames : read_Ok(n)

SpecRead == InitRead /\ [][NextRead]_vars

InArchive(n) == \E i \in 1..Len(archive) : archive[i] = n

\* C25: when the archiver extracted without error, read(name) returns the
\* bytes of every member the archive has, directory components in the name
\* or not, and raises "not found in archive" only for a name it does not have
C25_ReadReturnsMemberBytes ==
  \A n \in ReadNames :
    (pc = "done" /\ LogHas("run_7z e", n, "ok")) =>
      IF InArchive(n)
      THEN result = Returned /\ returned = Bytes(Data(n))
      ELSE result = Raised("FileNotFoundError", NotInArchiveMsg \o n)

\* --------------------------------------------------------- create_archive
\* how many input paths create_archive is given
MaxFiles == 3

\* input paths, each existing or not when it is looked at
InputPaths == {"a.txt", "docs/", "missing.txt"}
Inputs == [path : InputPaths, exists : BOOLEAN]
InputLists ==
  {fs \in UNION {[1..n -> Inputs] : n \in 0..MaxFiles} :
     \A i, j \in 1..Len(fs) : fs[i].path = fs[j].path => fs[i].exists = fs[j].exists}

InputNotFoundMsg == "File or directory not found: "

\* what create_archive leaves alone
createFrame ==
  <<windows, archive, overwrite, target, error_message, file_list,
    sanitization_mapping, temp_dir, staged, pending, extracted_count,
    failed_files, sys_tmp, guardVars, sanVars, listVars, infoVars,
    streamVars, create_files>>

\* with SevenZipFile(archive_path, "w", level) as sz: before the loop
InitCreate ==
  /\ create_files \in InputLists
  /\ added = <<>>
  /\ call = "create_archive"
  /\ mode = "w"
  /\ archive_exists = FALSE
  /\ target_exists = TRUE
  /\ add_name = ""
  /\ add_name_exists = FALSE
  /\ windows = FALSE
  /\ overwrite = FALSE
  /\ file_list = <<>>
  /\ sanitization_mapping = <<>>
  /\ pc = "create"
  /\ log = <<>>
  /\ result = Running
  /\ NoFallbackState
  /\ NoSanitizeCall
  /\ NoListing
  /\ NoStatistics
  /\ NoStreams

InCreateLoop == pc = "create" /\ idx <= Len(create_files)
file_path == create_files[idx].path

\* path.exists(): sz.add(file_path) succeeds
create_Add ==
  /\ InCreateLoop
  /\ create_files[idx].exists
  /\ log' = Append(log, Ev("run_7z a", file_path, "ok"))
  /\ added' = Append(added, file_path)
  /\ idx' = idx + 1
  /\ UNCHANGED <<pc, result, createFrame>>

\* path.exists(): sz.add(file_path) raises RuntimeError, which leaves the
\* with-block
create_AddFail(stderr) ==
  /\ InCreateLoop
  /\ create_files[idx].exists
  /\ log' = Append(log, Ev("run_7z a", file_path, "failed"))
  /\ result' = Raised("RuntimeError", AddFailedMsg(file_path, stderr))
  /\ pc' = "done"
  /\ UNCHANGED <<idx, added, createFrame>>

\* else: raise FileNotFoundError(...)
create_Missing ==
  /\ InCreateLoop
  /\ ~create_files[idx].exists
  /\ result' = Raised("FileNotFoundError", InputNotFoundMsg \o file_path)
  /\ pc' = "done"
  /\ UNCHANGED <<idx, log, added, createFrame>>

\* the loop is exhausted
create_Finish ==
  /\ pc = "create"
  /\ idx > Len(create_files)
  /\ result' = Returned
  /\ pc' = "done"
  /\ UNCHANGED <<idx, log, added, createFrame>>

NextCreate ==
  \/ create_Add
  \/ \E stderr \in Diagnostics : create_AddFail(stderr)
  \/ create_Missing
  \/ create_Finish

SpecCreate == InitCreate /\ [][NextCreate]_vars

\* C30: when create_archive raises the not-found error it names a listed
\* input that does not exist and none of the inputs has been added, wherever
\* in the list the missing path is
C30_NothingAddedWhenAnInputIsMissing ==
  (pc = "done" /\ result.kind = "FileNotFoundError") =>
    /\ \E i \in 1..Len(create_files) :
         /\ ~create_files[i].exists
         /\ result.message = InputNotFoundMsg \o create_files[i].path
    /\ added = <<>>

====
